---- MODULE Spec2Model ----
(***************************************************************************)
(* DoorOpener: the /open-door handler of app.py (rate limiting per         *)
(* fingerprint, per session and globally, the pinless OIDC path, the PIN   *)
(* check against user_pins) and the JSON users store of users_store.py.    *)
(*                                                                         *)
(* Time is counted in ticks of one hour: the hourly window of              *)
(* check_global_rate_limit is 1 tick, and the model runs the               *)
(* configuration block_time_minutes = 120, i.e. BLOCK_TIME = 2 ticks, so   *)
(* that a block can span the instant the hourly window elapses.            *)
(* The thresholds of the [security] section are state fixed at start-up,   *)
(* so that each specification runs the handler under its configuration.    *)
(* The progressive delay (at most 16 s) is far below one tick: the handler *)
(* is one atomic step at the time `now` it read on entry, and the delay it *)
(* slept is recorded in the response.                                      *)
(***************************************************************************)
EXTENDS Integers, Sequences, FiniteSets, TLC

\* ---------------------------------------------------------------- bounds
MaxTime == 2
MaxOver == 1
MaxUses == 2

\* ------------------------------------------------- configuration (app.py)
BLOCK_TIME == 2
GLOBAL_WINDOW == 1

\* defaultdict(lambda: None): the value of a key that holds no timestamp
None == -1

Sessions == {"s1", "s2"}
Idents == {"f1", "f2"}
UserGroup == "dooropener-users"
GroupSets == {{}, {UserGroup}}
OidcSessions == {"s1"}

\* The static [pins] table of config.ini.
user_pins == [alice |-> <<"1", "1", "1", "1">>]

Digits == {"0", "1", "2", "3", "4", "5", "6", "7", "8", "9"}

\* ---------------------------------------------------------- request bodies
\* data = request.get_json(...): has_pin is `data and 'pin' in data`, is_str
\* is isinstance(data['pin'], str), pin the characters of the string;
\* is_object is whether data, when it is truthy, is a JSON object (a dict).
NoPinBody == [is_object |-> TRUE, has_pin |-> FALSE, is_str |-> FALSE, pin |-> <<>>]
NullPinBody == [is_object |-> TRUE, has_pin |-> TRUE, is_str |-> FALSE, pin |-> <<>>]
StrPinBody(p) == [is_object |-> TRUE, has_pin |-> TRUE, is_str |-> TRUE, pin |-> p]
\* A body that is a non-empty JSON array, such as [1]: it has no  get .
ArrayBody == [is_object |-> FALSE, has_pin |-> FALSE, is_str |-> FALSE, pin |-> <<>>]

EmptyPin == <<>>
ShortPin == <<"1", "2">>
WrongPin == <<"0", "0", "0", "0">>
AlicePin == <<"1", "1", "1", "1">>
StorePin == <<"2", "2", "2", "2">>

Bodies == {NoPinBody, StrPinBody(EmptyPin), StrPinBody(ShortPin),
           StrPinBody(WrongPin), StrPinBody(AlicePin)}

HaOutcomes == {"200", "non200", "request_exception", "exception"}

VARIABLES
    now,                      \* get_current_time()
    ip_failed_attempts,       \* app.py:164
    ip_blocked_until,         \* app.py:165
    session_failed_attempts,  \* app.py:166
    session_blocked_until,    \* app.py:167
    global_failed_attempts,   \* app.py:168
    global_last_reset,        \* app.py:169
    session,                  \* the Flask session cookie of each client session
    oidc_expired,             \* whether the identity assertion behind the session has expired
    require_pin_for_oidc,     \* app.py:124
    oidc_user_group,          \* app.py:123
    test_mode,                \* app.py:114
    MAX_ATTEMPTS,             \* app.py:171
    MAX_GLOBAL_ATTEMPTS_PER_HOUR, \* app.py:173
    SESSION_MAX_ATTEMPTS,     \* app.py:174
    last,                     \* response and audit status of the last /open-door
    users,                    \* UsersStore.data["users"]
    loaded,                   \* UsersStore._loaded
    file,                     \* the users.json file on disk
    store_last,               \* outcome of the last UsersStore call
    threads,                  \* the locals of each open_door run that is in progress
    calls,                    \* the position of each UsersStore call that is in progress
    store2,                   \* data and _loaded of a second UsersStore on the same path
    admin_failures,           \* /admin/auth answers 403 in a row that each client has counted
    attempt_log               \* failed-attempt records in the audit log, per timestamp

tracker == <<ip_failed_attempts, ip_blocked_until, session_failed_attempts,
             session_blocked_until>>
globals == <<global_failed_attempts, global_last_reset>>
config == <<require_pin_for_oidc, oidc_user_group, test_mode, MAX_ATTEMPTS,
            MAX_GLOBAL_ATTEMPTS_PER_HOUR, SESSION_MAX_ATTEMPTS>>
oidc == <<session, oidc_expired>>
store == <<users, loaded, file, store_last, calls, store2>>
vars == <<now, tracker, globals, oidc, config, admin_failures, attempt_log, last, store, threads>>

\* ------------------------------------------------------------ pure helpers
isdigit(p) == Len(p) > 0 /\ \A i \in 1..Len(p) : p[i] \in Digits

\* validate_pin_input: (True, pin) for a str of 4 to 8 digits, else (False, None)
validate_pin_input(body) ==
    body.is_str /\ isdigit(body.pin) /\ 4 <= Len(body.pin) /\ Len(body.pin) <= 8

\* `not pin_from_request`: None and "" are falsy
pin_from_request_falsy(body) ==
    ~body.has_pin \/ ~body.is_str \/ Len(body.pin) = 0

\* A faulty variant: the delay is not capped at 16 seconds.
get_delay_seconds_NoCap(attempt_count) ==
    IF attempt_count > 0 THEN 2 ^ (attempt_count - 1) ELSE 0

\* A faulty variant: the exponent is the count, not the count less one.
get_delay_seconds_Doubled(attempt_count) ==
    IF attempt_count > 0
    THEN (IF 2 ^ attempt_count < 16 THEN 2 ^ attempt_count ELSE 16)
    ELSE 0

get_delay_seconds(attempt_count) ==
    IF attempt_count > 0
    THEN (IF 2 ^ (attempt_count - 1) < 16 THEN 2 ^ (attempt_count - 1) ELSE 16)
    ELSE 0

\* check_global_rate_limit: the hourly reset it performs, then its result
WindowElapsed == now - global_last_reset > GLOBAL_WINDOW
\* A faulty variant: the hourly window never resets the global counter.
GlobalAfterCheck_NoReset == global_failed_attempts

GlobalAfterCheck == IF WindowElapsed THEN 0 ELSE global_failed_attempts
LastResetAfterCheck == IF WindowElapsed THEN now ELSE global_last_reset
\* A faulty variant: one attempt more than the limit is let through.
check_global_rate_limit_Lenient == GlobalAfterCheck <= MAX_GLOBAL_ATTEMPTS_PER_HOUR

check_global_rate_limit == GlobalAfterCheck < MAX_GLOBAL_ATTEMPTS_PER_HOUR

\* A faulty variant: the comparison with the block's expiry is turned around.
SessionBlocked_Flipped(sid) ==
    session_blocked_until[sid] # None /\ now > session_blocked_until[sid]

SessionBlocked(sid) ==
    session_blocked_until[sid] # None /\ now < session_blocked_until[sid]
\* A faulty variant: the fingerprint's block is not looked at.
IpBlocked_Never(ident) == FALSE

IpBlocked(ident) ==
    ip_blocked_until[ident] # None /\ now < ip_blocked_until[ident]

\* A faulty variant: the pinless branch does not look at require_pin_for_oidc.
PinlessAllowed_IgnorePolicy(sid, body) ==
    /\ pin_from_request_falsy(body)
    /\ session[sid].oidc_authenticated
    /\ (oidc_user_group = "" \/ oidc_user_group \in session[sid].oidc_groups)

\* oidc_user_allowed and the condition of the pinless branch
oidc_user_allowed(sid) ==
    oidc_user_group = "" \/ oidc_user_group \in session[sid].oidc_groups
PinlessAllowed(sid, body) ==
    /\ pin_from_request_falsy(body)
    /\ session[sid].oidc_authenticated
    /\ oidc_user_allowed(sid)
    /\ ~require_pin_for_oidc

\* for user, user_pin in user_pins.items(): if pin_from_request == user_pin
MatchedUsers(pin) == {u \in DOMAIN user_pins : user_pins[u] = pin}

\* ------------------------------------------------------------------- Init
\* A session cookie with nothing in it.  permanent is session.permanent,
\* with which admin_auth also sets the lifetime of permanent sessions to 30
\* days; blocked_until_ts is a block marker that the cookie may carry.
NewSession ==
    [oidc_authenticated |-> FALSE, oidc_groups |-> {}, admin_authenticated |-> FALSE,
     permanent |-> FALSE, blocked_until_ts |-> None]

\* config.ini has no [oidc] admin_group: every OIDC user is an admin.
oidc_admin_group == ""

NoResponse ==
    [status |-> "NONE", user |-> "UNKNOWN", code |-> 0, message |-> "none",
     validated |-> FALSE, actuator |-> "not_called", delay |-> 0,
     blocked_until |-> None]

\* The request threads of the server, and a thread that is handling nothing.
Threads == {"t1", "t2"}
IdleThread ==
    [pc |-> "idle", session_id |-> "none", identifier |-> "none", now |-> 0,
     tmp |-> 0, reason |-> "none", delay |-> 0]

NoUsers == [u \in {} |-> 0]
\* users.json: whether it exists, whether json.load reads it as a document
\* with a dictionary under "users", and that dictionary.
NoFile == [exists |-> FALSE, valid |-> TRUE, users |-> NoUsers]
NoCall == [op |-> "none", username |-> "none", result |-> "none"]
\* A thread that is in no UsersStore call.  While a call runs the record
\* holds its arguments (has_pin is `pin is not None`, has_active is
\* `active is not None`), the times_used it has read, and the text its file
\* object has buffered.
IdleCall ==
    [pc |-> "idle", op |-> "none", username |-> "none",
     has_pin |-> FALSE, pin |-> [is_str |-> FALSE, pin |-> <<>>],
     has_active |-> FALSE, active |-> FALSE, tmp |-> 0, buffer |-> NoUsers,
     result |-> "none"]

\* UsersStore.__init__: data = {"users": {}}, _loaded = False
FreshStore ==
    /\ users = NoUsers
    /\ loaded = FALSE
    /\ store_last = NoCall
    /\ calls = [t \in Threads |-> IdleCall]
    /\ store2 = [users |-> NoUsers, loaded |-> FALSE]

\* The module-level state of app.py after import.
InitApp ==
    /\ now = 0
    /\ ip_failed_attempts = [f \in Idents |-> 0]
    /\ ip_blocked_until = [f \in Idents |-> None]
    /\ session_failed_attempts = [s \in Sessions |-> 0]
    /\ session_blocked_until = [s \in Sessions |-> None]
    /\ global_failed_attempts = 0
    /\ global_last_reset = 0
    /\ session = [s \in Sessions |-> NewSession]
    /\ admin_failures = [s \in Sessions |-> 0]
    /\ attempt_log = [t \in 0..MaxTime |-> 0]
    /\ oidc_expired = [s \in Sessions |-> FALSE]
    /\ last = NoResponse
    /\ threads = [t \in Threads |-> IdleThread]

\* The application after start-up, with no users.json on disk.
InitState ==
    /\ InitApp
    /\ FreshStore
    /\ file = NoFile

\* config.ini: max_attempts = 2, session_max_attempts = 2,
\* max_global_attempts_per_hour = 3.
SmallLimits ==
    /\ MAX_ATTEMPTS = 2
    /\ SESSION_MAX_ATTEMPTS = 2
    /\ MAX_GLOBAL_ATTEMPTS_PER_HOUR = 3

\* Pinless OIDC use allowed for the members of the user group.
PinlessPolicy ==
    /\ require_pin_for_oidc = FALSE
    /\ oidc_user_group = UserGroup

\* Production mode, no session ever signs in with OIDC.
Init ==
    /\ InitState
    /\ SmallLimits
    /\ PinlessPolicy
    /\ test_mode = FALSE

\* ------------------------------------------------------- /open-door pieces
\* jsonify(...), status code, and the record given to attempt_logger.info
\* (status "NONE": the branch writes no audit record). Every JSON body of
\* open_door has the keys "status" and "message" only: blocked_until is None,
\* the key is absent.
Respond(status, user, code, message, validated, actuator, delay) ==
    last' = [status |-> status, user |-> user, code |-> code, message |-> message,
             validated |-> validated, actuator |-> actuator, delay |-> delay,
             blocked_until |-> None]

\* A faulty variant: the fingerprint block is checked before the session block.
BlockCheck_IpFirst(sid, ident) ==
    IF ~check_global_rate_limit THEN "GLOBAL_BLOCKED"
    ELSE IF IpBlocked(ident) THEN "IP_BLOCKED"
    ELSE IF SessionBlocked(sid) THEN "SESSION_BLOCKED"
    ELSE "PASS"

\* The three block checks in the order of the code.
BlockCheck(sid, ident) ==
    IF ~check_global_rate_limit THEN "GLOBAL_BLOCKED"
    ELSE IF SessionBlocked(sid) THEN "SESSION_BLOCKED"
    ELSE IF IpBlocked(ident) THEN "IP_BLOCKED"
    ELSE "PASS"

BlockMessage(status) ==
    IF status = "GLOBAL_BLOCKED" THEN "Service temporarily unavailable"
    ELSE "Too many failed attempts. Please try again later."

\* The hourly reset of check_global_rate_limit, when nothing else writes
\* the global counter.
GlobalChecked ==
    /\ global_failed_attempts' = GlobalAfterCheck
    /\ global_last_reset' = LastResetAfterCheck

\* A denial by one of the three block checks: 429, and nothing but the
\* hourly reset is written.
Blocked(status) ==
    /\ Respond(status, "UNKNOWN", 429, BlockMessage(status),
               FALSE, "not_called", 0)
    /\ GlobalChecked
    /\ UNCHANGED tracker

\* A faulty variant: the session's counter is not incremented.
CountFailure_NoSession(sid, ident) ==
    /\ ip_failed_attempts[ident] < MAX_ATTEMPTS + MaxOver
    /\ session_failed_attempts[sid] < SESSION_MAX_ATTEMPTS + MaxOver
    /\ ip_failed_attempts' = [ip_failed_attempts EXCEPT ![ident] = @ + 1]
    /\ UNCHANGED session_failed_attempts
    /\ global_failed_attempts' = GlobalAfterCheck + 1
    /\ global_last_reset' = LastResetAfterCheck

\* ip_failed_attempts[identifier] += 1; session_failed_attempts[session_id] += 1;
\* global_failed_attempts += 1
\* A faulty variant: the session's count starts again once its block has
\* expired.
CountFailure_ResetsExpired(sid, ident) ==
    /\ ip_failed_attempts[ident] < MAX_ATTEMPTS + MaxOver
    /\ session_failed_attempts[sid] < SESSION_MAX_ATTEMPTS + MaxOver
    /\ ip_failed_attempts' = [ip_failed_attempts EXCEPT ![ident] = @ + 1]
    /\ session_failed_attempts' =
          [session_failed_attempts EXCEPT
              ![sid] = IF session_blocked_until[sid] # None THEN 1 ELSE @ + 1]
    /\ global_failed_attempts' = GlobalAfterCheck + 1
    /\ global_last_reset' = LastResetAfterCheck

CountFailure(sid, ident) ==
    /\ ip_failed_attempts[ident] < MAX_ATTEMPTS + MaxOver
    /\ session_failed_attempts[sid] < SESSION_MAX_ATTEMPTS + MaxOver
    /\ ip_failed_attempts' = [ip_failed_attempts EXCEPT ![ident] = @ + 1]
    /\ session_failed_attempts' = [session_failed_attempts EXCEPT ![sid] = @ + 1]
    /\ global_failed_attempts' = GlobalAfterCheck + 1
    /\ global_last_reset' = LastResetAfterCheck

\* A faulty variant: a success does not reset the session's counter.
ResetOnSuccess_NoSession(sid, ident) ==
    /\ ip_failed_attempts' = [ip_failed_attempts EXCEPT ![ident] = 0]
    /\ UNCHANGED session_failed_attempts
    /\ ip_blocked_until' = [ip_blocked_until EXCEPT ![ident] = None]
    /\ session_blocked_until' = [session_blocked_until EXCEPT ![sid] = None]
    /\ GlobalChecked

\* Reset failed attempts on successful auth; the global counter is not written.
ResetOnSuccess(sid, ident) ==
    /\ ip_failed_attempts' = [ip_failed_attempts EXCEPT ![ident] = 0]
    /\ session_failed_attempts' = [session_failed_attempts EXCEPT ![sid] = 0]
    /\ ip_blocked_until' = [ip_blocked_until EXCEPT ![ident] = None]
    /\ session_blocked_until' = [session_blocked_until EXCEPT ![sid] = None]
    /\ GlobalChecked

\* Test mode, or the call to Home Assistant and the response built from it.
OpenTheDoor(user, validated) ==
    IF test_mode
    THEN Respond("SUCCESS", user, 200,
                 "Door open command sent (TEST MODE)", validated, "not_called", 0)
    ELSE \E ha \in HaOutcomes :
         IF ha = "200"
         THEN Respond("SUCCESS", user, 200,
                      "Door open command sent", validated, ha, 0)
         ELSE IF ha = "non200"
         THEN Respond("FAILURE", user, 500,
                      "Home Assistant API error", validated, ha, 0)
         ELSE IF ha = "request_exception"
         THEN Respond("NONE", user, 502,
                      "Failed to contact Home Assistant", validated, ha, 0)
         ELSE Respond("API_FAILURE", user, 500,
                      "Internal server error during API call", validated, ha, 0)

\* No PIN, OIDC session authenticated and allowed, require_pin_for_oidc off.
OidcPinless(sid, ident) ==
    /\ OpenTheDoor("oidc-user", FALSE)
    /\ ResetOnSuccess(sid, ident)

\* A faulty variant: the exception leaves open_door and the framework
\* answers 500 itself, with no audit record.
Raised_Propagates ==
    /\ Respond("NONE", "UNKNOWN", 500, "Internal Server Error",
               FALSE, "not_called", 0)
    /\ GlobalChecked
    /\ UNCHANGED tracker

\* except Exception, entered from line 384 ( data.get  of a body that is not
\* an object raises AttributeError): an EXCEPTION record and a 500. The block
\* checks have run; no counter has been touched.
Raised ==
    /\ Respond("EXCEPTION", "UNKNOWN", 500, "Internal server error",
               FALSE, "not_called", 0)
    /\ GlobalChecked
    /\ UNCHANGED tracker

PinRequired ==
    /\ Respond("NONE", "UNKNOWN", 400, "PIN required",
               FALSE, "not_called", 0)
    /\ GlobalChecked
    /\ UNCHANGED tracker

InvalidFormat(sid, ident) ==
    /\ Respond("INVALID_FORMAT", "UNKNOWN", 400,
               "Invalid PIN format", TRUE, "not_called", 0)
    /\ CountFailure(sid, ident)
    /\ UNCHANGED <<ip_blocked_until, session_blocked_until>>

\* A faulty variant: the counters and blocks are reset after the actuator
\* call, and only when it succeeded.
PinMatch_ResetAfterCall(sid, ident, body) ==
    \E matched_user \in MatchedUsers(body.pin) :
        /\ OpenTheDoor(matched_user, TRUE)
        /\ IF last'.code = 200
           THEN ResetOnSuccess(sid, ident)
           ELSE GlobalChecked /\ UNCHANGED tracker

PinMatch(sid, ident, body) ==
    \E matched_user \in MatchedUsers(body.pin) :
        /\ OpenTheDoor(matched_user, TRUE)
        /\ ResetOnSuccess(sid, ident)

\* A faulty variant: the delay is computed from the count before the
\* increment of this attempt.
ProgressiveDelay_Stale(sid) == get_delay_seconds(session_failed_attempts[sid])

\* delay = get_delay_seconds(session_failed_attempts[session_id]), read after
\* the increment; time.sleep(delay) precedes the audit record and the return.
ProgressiveDelay(sid) == get_delay_seconds(session_failed_attempts'[sid])

\* Failed authentication: count, then the session block, else the IP block,
\* else the progressive delay.
\* A faulty variant: the fingerprint is never blocked.
AuthFailure_NoIpBlock(sid, ident) ==
    /\ CountFailure(sid, ident)
    /\ IF session_failed_attempts'[sid] >= SESSION_MAX_ATTEMPTS
       THEN /\ session_blocked_until' =
                   [session_blocked_until EXCEPT ![sid] = now + BLOCK_TIME]
            /\ UNCHANGED ip_blocked_until
            /\ Respond("AUTH_FAILURE", "UNKNOWN", 401,
                       "Invalid PIN. Session blocked", TRUE, "not_called", 0)
       ELSE /\ UNCHANGED <<ip_blocked_until, session_blocked_until>>
            /\ Respond("AUTH_FAILURE", "UNKNOWN", 401,
                       "Invalid PIN. attempts remaining", TRUE, "not_called",
                       ProgressiveDelay(sid))

AuthFailure(sid, ident) ==
    /\ CountFailure(sid, ident)
    /\ IF session_failed_attempts'[sid] >= SESSION_MAX_ATTEMPTS
       THEN /\ session_blocked_until' =
                   [session_blocked_until EXCEPT ![sid] = now + BLOCK_TIME]
            /\ UNCHANGED ip_blocked_until
            /\ Respond("AUTH_FAILURE", "UNKNOWN", 401,
                       "Invalid PIN. Session blocked", TRUE, "not_called", 0)
       ELSE IF ip_failed_attempts'[ident] >= MAX_ATTEMPTS
       THEN /\ ip_blocked_until' = [ip_blocked_until EXCEPT ![ident] = now + BLOCK_TIME]
            /\ UNCHANGED session_blocked_until
            /\ Respond("AUTH_FAILURE", "UNKNOWN", 401,
                       "Invalid PIN. Access blocked", TRUE, "not_called", 0)
       ELSE /\ UNCHANGED <<ip_blocked_until, session_blocked_until>>
            /\ Respond("AUTH_FAILURE", "UNKNOWN", 401,
                       "Invalid PIN. attempts remaining", TRUE, "not_called",
                       ProgressiveDelay(sid))

\* ------------------------------------------------------------ POST /open-door
\* What open_door does to the counters, the blocks and the response.
open_door(sid, ident, body, suspicious) ==
    /\ UNCHANGED now
    /\ IF suspicious
       THEN /\ Respond("SUSPICIOUS", "UNKNOWN", 403,
                       "Request blocked", FALSE, "not_called", 0)
            /\ UNCHANGED <<tracker, globals>>
       ELSE LET check == BlockCheck(sid, ident)
            IN  IF check # "PASS"
                THEN Blocked(check)
                ELSE IF ~body.is_object
                THEN Raised
                ELSE IF PinlessAllowed(sid, body)
                THEN OidcPinless(sid, ident)
                ELSE IF ~body.has_pin
                THEN PinRequired
                ELSE IF ~validate_pin_input(body)
                THEN InvalidFormat(sid, ident)
                ELSE IF MatchedUsers(body.pin) # {}
                THEN PinMatch(sid, ident, body)
                ELSE AuthFailure(sid, ident)

\* A request whose audit record is not kept.
OpenDoor(sid, ident, body, suspicious) ==
    /\ open_door(sid, ident, body, suspicious)
    /\ UNCHANGED <<oidc, config, admin_failures, attempt_log, store, threads>>

\* A request whose audit record is kept when it is one of a failed attempt:
\* attempt_logger.info of the INVALID_FORMAT and AUTH_FAILURE entries, which
\* carry the now of the request as their timestamp.
OpenDoorLogged(sid, ident, body) ==
    /\ open_door(sid, ident, body, FALSE)
    /\ attempt_log' =
          IF last'.status \in {"INVALID_FORMAT", "AUTH_FAILURE"}
          THEN [attempt_log EXCEPT ![now] = @ + 1]
          ELSE attempt_log
    /\ UNCHANGED <<oidc, config, admin_failures, store, threads>>

\* GET /oidc/callback: the provider asserted the identity; the session keeps
\* oidc_authenticated and oidc_groups (the assertion's expiry is not stored).
OidcCallback(sid, groups) ==
    /\ session' = [session EXCEPT
                      ![sid].oidc_authenticated = TRUE,
                      ![sid].oidc_groups = groups,
                      ![sid].admin_authenticated =
                          IF oidc_admin_group = "" \/ oidc_admin_group \in groups
                          THEN TRUE ELSE @]
    /\ oidc_expired' = [oidc_expired EXCEPT ![sid] = FALSE]
    /\ UNCHANGED <<now, tracker, globals, config, admin_failures, attempt_log, last, store, threads>>

\* The assertion a session was authenticated with reaches its expiry.
OidcExpire(sid) ==
    /\ session[sid].oidc_authenticated
    /\ ~oidc_expired[sid]
    /\ oidc_expired' = [oidc_expired EXCEPT ![sid] = TRUE]
    /\ UNCHANGED <<now, session, tracker, globals, config, admin_failures, attempt_log, last, store, threads>>

\* POST /admin/auth with the admin password or another one.  No counter is
\* read or written and no audit record is made.
admin_auth(sid, correct, remember_me) ==
    /\ admin_failures[sid] <= SESSION_MAX_ATTEMPTS
    /\ IF correct
       THEN /\ session' = [session EXCEPT ![sid].admin_authenticated = TRUE,
                                          ![sid].permanent = remember_me]
            /\ last' = [NoResponse EXCEPT !.code = 200, !.message = "success"]
            /\ admin_failures' = [admin_failures EXCEPT ![sid] = 0]
       ELSE /\ last' = [NoResponse EXCEPT !.code = 403,
                                          !.message = "Invalid admin password"]
            /\ admin_failures' = [admin_failures EXCEPT ![sid] = @ + 1]
            /\ UNCHANGED session
    /\ UNCHANGED <<now, tracker, globals, oidc_expired, config, attempt_log, store,
                   threads>>

\* Time passes.
Tick ==
    /\ now < MaxTime
    /\ now' = now + 1
    /\ UNCHANGED <<tracker, globals, oidc, config, admin_failures, attempt_log, last, store, threads>>

\* Requests of the sessions S from the fingerprints F with the bodies B.
\* A request that is_request_suspicious flags is answered before its body
\* is read.
Requests(S, F, B) ==
    \E sid \in S, ident \in F :
        \/ \E body \in B : OpenDoor(sid, ident, body, FALSE)
        \/ OpenDoor(sid, ident, NoPinBody, TRUE)

Login == \E sid \in OidcSessions, groups \in GroupSets : OidcCallback(sid, groups)

\* PIN requests of two sessions from two fingerprints.
Next ==
    \/ Requests(Sessions, Idents, Bodies)
    \/ Tick

Spec == Init /\ [][Next]_vars

\* The same with OIDC sign-in of session s1 and pinless requests.
OidcBodies == {NoPinBody, StrPinBody(WrongPin), StrPinBody(AlicePin)}

NextOidc ==
    \/ Requests(Sessions, Idents, OidcBodies)
    \/ Login
    \/ Tick

SpecOidc == Init /\ [][NextOidc]_vars

\* ------------------------------------------------- UsersStore (users_store.py)
\* Usernames are strings; their characters, for _validate_username.
Usernames == {"alice", "bob", "a b"}
UsernameChars ==
    ("alice" :> <<"a", "l", "i", "c", "e">>) @@ ("bob" :> <<"b", "o", "b">>)
    @@ ("a b" :> <<"a", " ", "b">>)
AllowedChars == {"a", "b", "c", "e", "i", "l", "o", "_", "-", "."}

\* A pin value given to the store or found in the file: a str or not.
PinValue(p) == [is_str |-> TRUE, pin |-> p]
NullPinValue == [is_str |-> FALSE, pin |-> <<>>]

validate_username(username) ==
    LET chars == UsernameChars[username]
    IN  /\ 1 <= Len(chars) /\ Len(chars) <= 32
        /\ \A i \in 1..Len(chars) : chars[i] \in AllowedChars

validate_pin(v) ==
    v.is_str /\ isdigit(v.pin) /\ 4 <= Len(v.pin) /\ Len(v.pin) <= 8

\* json.dump and json.load of the "users" object: None is written as null
\* and null is read as None; strings, booleans and integers are kept, and a
\* key that a record lacks (times_used of a record written by an older
\* version, None here) is still lacking after the round trip.
JsonNull == -2
json_dump(data) ==
    [u \in DOMAIN data |->
        [data[u] EXCEPT !.last_used_at = IF @ = None THEN JsonNull ELSE @]]
\* A faulty variant: null is not read back as None.
json_load_KeepsNull(doc) == doc

json_load(doc) ==
    [u \in DOMAIN doc |->
        [doc[u] EXCEPT !.last_used_at = IF @ = JsonNull THEN None ELSE @]]

\* A faulty variant: the file is read at every access.
load_file_Rereads ==
    IF file.exists /\ file.valid THEN json_load(file.users) ELSE NoUsers

\* _load_file: the cached data, or on first access the content of the file
\* ({"users": {}} when the file does not exist, json.load raises, or the
\* document has no dictionary under "users").
load_file ==
    IF loaded THEN users
    ELSE IF file.exists /\ file.valid THEN json_load(file.users)
    ELSE NoUsers

\* A faulty variant: a base pin is kept when the store has an active record
\* of the same username.
effective_pins_BaseWins(base_pins) ==
    LET data == load_file
        inactive == {u \in DOMAIN data : ~data[u].active}
        valid == {u \in DOMAIN data : data[u].active /\ validate_pin(data[u].pin)}
    IN  [u \in (DOMAIN base_pins \ inactive) \cup valid |->
            IF u \in DOMAIN base_pins THEN base_pins[u] ELSE data[u].pin.pin]

\* effective_pins(base_pins): base pins, minus inactive store users, with
\* the valid pins of active store users put over them.
effective_pins(base_pins) ==
    LET data == load_file
        inactive == {u \in DOMAIN data : ~data[u].active}
        valid == {u \in DOMAIN data : data[u].active /\ validate_pin(data[u].pin)}
    IN  [u \in (DOMAIN base_pins \ inactive) \cup valid |->
            IF u \in valid THEN data[u].pin.pin ELSE base_pins[u]]

\* A faulty variant: the records of the file that the instance does not hold
\* are kept.
save_atomic_Merges(data) ==
    LET on_disk == IF file.exists /\ file.valid THEN file.users ELSE NoUsers
    IN  file' = [exists |-> TRUE, valid |-> TRUE,
                 users |-> [u \in DOMAIN on_disk \cup DOMAIN data |->
                               IF u \in DOMAIN data THEN json_dump(data)[u]
                               ELSE on_disk[u]]]

\* _save_atomic: json.dump(self.data) into the file
save_atomic(data) ==
    file' = [exists |-> TRUE, valid |-> TRUE, users |-> json_dump(data)]

StoreResult(op, username, result) ==
    store_last' = [op |-> op, username |-> username, result |-> result]

\* A raise before any mutation: only _ensure_loaded has acted.
StoreRaise(op, username, error) ==
    /\ users' = load_file
    /\ loaded' = TRUE
    /\ UNCHANGED file
    /\ StoreResult(op, username, error)

create_user(username, pin, active) ==
    /\ UNCHANGED <<now, tracker, globals, oidc, config, admin_failures, attempt_log, last, threads, store2, calls>>
    /\ IF ~validate_username(username) THEN StoreRaise("create", username, "ValueError")
       ELSE IF ~validate_pin(pin) THEN StoreRaise("create", username, "ValueError")
       ELSE IF username \in DOMAIN load_file THEN StoreRaise("create", username, "KeyError")
       ELSE /\ users' = [u \in DOMAIN load_file \cup {username} |->
                            IF u = username
                            THEN [pin |-> pin, active |-> active, created_at |-> now,
                                  updated_at |-> now, last_used_at |-> None,
                                  times_used |-> 0]
                            ELSE load_file[u]]
            /\ loaded' = TRUE
            /\ save_atomic(users')
            /\ StoreResult("create", username, "ok")

\* pin and active are Optional: given is FALSE for None.
NotGiven == [given |-> FALSE, value |-> FALSE]
GivenPin(v) == [given |-> TRUE, value |-> v]
GivenActive(b) == [given |-> TRUE, value |-> b]

\* A faulty variant: the supplied active flag is stored before the supplied
\* pin is validated.
update_user_PartialWrite(username, pin, active) ==
    /\ UNCHANGED <<now, tracker, globals, oidc, config, admin_failures, attempt_log, last, threads, store2, calls>>
    /\ IF username \notin DOMAIN load_file THEN StoreRaise("update", username, "KeyError")
       ELSE IF pin.given /\ ~validate_pin(pin.value)
       THEN /\ users' = [load_file EXCEPT ![username] =
                            [@ EXCEPT !.active = IF active.given THEN active.value ELSE @]]
            /\ loaded' = TRUE
            /\ UNCHANGED file
            /\ StoreResult("update", username, "ValueError")
       ELSE /\ users' = [load_file EXCEPT ![username] =
                            [@ EXCEPT !.pin = IF pin.given THEN pin.value ELSE @,
                                      !.active = IF active.given THEN active.value ELSE @,
                                      !.updated_at = now]]
            /\ loaded' = TRUE
            /\ save_atomic(users')
            /\ StoreResult("update", username, "ok")

\* A faulty variant: the update stamps created_at as well.
update_user_StampsCreated(username, pin, active) ==
    /\ UNCHANGED <<now, tracker, globals, oidc, config, admin_failures, attempt_log, last, threads, store2, calls>>
    /\ IF username \notin DOMAIN load_file THEN StoreRaise("update", username, "KeyError")
       ELSE IF pin.given /\ ~validate_pin(pin.value)
       THEN StoreRaise("update", username, "ValueError")
       ELSE /\ users' = [load_file EXCEPT ![username] =
                            [@ EXCEPT !.pin = IF pin.given THEN pin.value ELSE @,
                                      !.active = IF active.given THEN active.value ELSE @,
                                      !.created_at = now,
                                      !.updated_at = now]]
            /\ loaded' = TRUE
            /\ save_atomic(users')
            /\ StoreResult("update", username, "ok")

\* A faulty variant: the active flag that is supplied is not stored.
update_user_KeepsActive(username, pin, active) ==
    /\ UNCHANGED <<now, tracker, globals, oidc, config, admin_failures, attempt_log, last, threads, store2, calls>>
    /\ IF username \notin DOMAIN load_file THEN StoreRaise("update", username, "KeyError")
       ELSE IF pin.given /\ ~validate_pin(pin.value)
       THEN StoreRaise("update", username, "ValueError")
       ELSE /\ users' = [load_file EXCEPT ![username] =
                            [@ EXCEPT !.pin = IF pin.given THEN pin.value ELSE @,
                                      !.updated_at = now]]
            /\ loaded' = TRUE
            /\ save_atomic(users')
            /\ StoreResult("update", username, "ok")

update_user(username, pin, active) ==
    /\ UNCHANGED <<now, tracker, globals, oidc, config, admin_failures, attempt_log, last, threads, store2, calls>>
    /\ IF username \notin DOMAIN load_file THEN StoreRaise("update", username, "KeyError")
       ELSE IF pin.given /\ ~validate_pin(pin.value)
       THEN StoreRaise("update", username, "ValueError")
       ELSE /\ users' = [load_file EXCEPT ![username] =
                            [@ EXCEPT !.pin = IF pin.given THEN pin.value ELSE @,
                                      !.active = IF active.given THEN active.value ELSE @,
                                      !.updated_at = now]]
            /\ loaded' = TRUE
            /\ save_atomic(users')
            /\ StoreResult("update", username, "ok")

delete_user(username) ==
    /\ UNCHANGED <<now, tracker, globals, oidc, config, admin_failures, attempt_log, last, threads, store2, calls>>
    /\ IF username \notin DOMAIN load_file THEN StoreRaise("delete", username, "KeyError")
       ELSE /\ users' = [u \in DOMAIN load_file \ {username} |-> load_file[u]]
            /\ loaded' = TRUE
            /\ save_atomic(users')
            /\ StoreResult("delete", username, "ok")

\* A faulty variant: a record without times_used is not counted from zero.
touch_user_NoDefault(username) ==
    /\ UNCHANGED <<now, tracker, globals, oidc, config, admin_failures, attempt_log, last, threads, store2, calls>>
    /\ IF username \notin DOMAIN load_file
       THEN /\ users' = load_file
            /\ loaded' = TRUE
            /\ UNCHANGED file
            /\ StoreResult("touch", username, "ok")
       ELSE /\ load_file[username].times_used < MaxUses
            /\ users' = [load_file EXCEPT ![username] =
                            [@ EXCEPT !.last_used_at = now,
                                      !.times_used = @ + 1]]
            /\ loaded' = TRUE
            /\ save_atomic(users')
            /\ StoreResult("touch", username, "ok")

touch_user(username) ==
    /\ UNCHANGED <<now, tracker, globals, oidc, config, admin_failures, attempt_log, last, threads, store2, calls>>
    /\ IF username \notin DOMAIN load_file
       THEN /\ users' = load_file
            /\ loaded' = TRUE
            /\ UNCHANGED file
            /\ StoreResult("touch", username, "ok")
       ELSE /\ load_file[username].times_used < MaxUses
            /\ users' = [load_file EXCEPT ![username] =
                            [@ EXCEPT !.last_used_at = now,
                                      !.times_used = (IF @ = None THEN 0 ELSE @) + 1]]
            /\ loaded' = TRUE
            /\ save_atomic(users')
            /\ StoreResult("touch", username, "ok")

\* ---------------------------------------------------- further specifications
\* The pinless path under every OIDC policy: one session that signs in, its
\* assertion expiring, bodies with no pin field, a null pin and an empty pin.
InitPinless ==
    /\ InitState
    /\ SmallLimits
    /\ require_pin_for_oidc \in BOOLEAN
    /\ oidc_user_group \in {"", UserGroup}
    /\ test_mode \in BOOLEAN

PinlessBodies == {NoPinBody, NullPinBody, StrPinBody(EmptyPin),
                  StrPinBody(WrongPin), StrPinBody(AlicePin)}

Expire == \E sid \in OidcSessions : OidcExpire(sid)

NextPinless ==
    \/ Requests(OidcSessions, {"f1"}, PinlessBodies)
    \/ Login
    \/ Expire
    \/ Tick

SpecPinless == InitPinless /\ [][NextPinless]_vars

\* The fallback limits of app.py: max_attempts = 5, session_max_attempts = 3,
\* max_global_attempts_per_hour = 50.
DefaultLimits ==
    /\ MAX_ATTEMPTS = 5
    /\ SESSION_MAX_ATTEMPTS = 3
    /\ MAX_GLOBAL_ATTEMPTS_PER_HOUR = 50

InitFive ==
    /\ InitState
    /\ DefaultLimits
    /\ PinlessPolicy
    /\ test_mode = FALSE

\* Every failed attempt of this specification is a malformed submission.
MalformedBodies == {NullPinBody, StrPinBody(EmptyPin), StrPinBody(ShortPin)}

FiveBodies == MalformedBodies \cup {StrPinBody(AlicePin)}

NextFive == Requests(Sessions, {"f1"}, FiveBodies)

SpecFive == InitFive /\ [][NextFive]_vars

\* The users store edited while PINs are tried, in test mode. users.json is
\* absent at start-up or holds a deactivated record of alice.
DeactivatedAlice ==
    [u \in {"alice"} |->
        [pin |-> PinValue(AlicePin), active |-> FALSE, created_at |-> 0,
         updated_at |-> 0, last_used_at |-> None, times_used |-> 0]]

InitAdmin ==
    /\ InitApp
    /\ FreshStore
    /\ file \in {NoFile, [exists |-> TRUE, valid |-> TRUE,
                             users |-> json_dump(DeactivatedAlice)]}
    /\ SmallLimits
    /\ PinlessPolicy
    /\ test_mode = TRUE

AdminBodies == {StrPinBody(WrongPin), StrPinBody(AlicePin), StrPinBody(StorePin)}
CreatePins == {PinValue(StorePin), PinValue(AlicePin), PinValue(ShortPin), NullPinValue}
UpdatePins == {NotGiven, GivenPin(PinValue(StorePin)), GivenPin(PinValue(ShortPin))}
UpdateActives == {NotGiven, GivenActive(TRUE), GivenActive(FALSE)}

CreateUser ==
    \E username \in Usernames, pin \in CreatePins, active \in BOOLEAN :
        create_user(username, pin, active)
UpdateUser ==
    \E username \in Usernames \ {"a b"}, pin \in UpdatePins, active \in UpdateActives :
        update_user(username, pin, active)
DeleteUser == \E username \in Usernames \ {"a b"} : delete_user(username)
TouchUser == \E username \in Usernames \ {"a b"} : touch_user(username)

NextAdmin ==
    \/ Requests({"s1"}, {"f1"}, AdminBodies)
    \/ CreateUser
    \/ UpdateUser
    \/ DeleteUser
    \/ TouchUser

SpecAdmin == InitAdmin /\ [][NextAdmin]_vars

\* Wrong PINs of two sessions behind one fingerprint, with the shipped
\* thresholds or with thresholds high enough for every step of the delay
\* schedule to be applied.
LongLimits ==
    /\ MAX_ATTEMPTS = 8
    /\ SESSION_MAX_ATTEMPTS = 7
    /\ MAX_GLOBAL_ATTEMPTS_PER_HOUR = 50

InitDelay ==
    /\ InitState
    /\ (DefaultLimits \/ LongLimits)
    /\ PinlessPolicy
    /\ test_mode = TRUE

DelayBodies == {StrPinBody(WrongPin), StrPinBody(AlicePin)}

NextDelay == Requests(Sessions, {"f1"}, DelayBodies)

SpecDelay == InitDelay /\ [][NextDelay]_vars

\* Requests whose body makes open_door raise, among PIN and pinless
\* requests of a session that may have signed in.
FaultBodies == {ArrayBody, NoPinBody, StrPinBody(WrongPin), StrPinBody(AlicePin)}

NextFault ==
    \/ Requests(OidcSessions, {"f1"}, FaultBodies)
    \/ Login
    \/ Tick

SpecFault == Init /\ [][NextFault]_vars

\* The store on its own: users.json as an administrator may have left it,
\* the four mutating calls, time passing, and the process starting again
\* with a fresh UsersStore on the same path.
StoreRecord(pin, active, times_used) ==
    [pin |-> pin, active |-> active, created_at |-> 0, updated_at |-> 0,
     last_used_at |-> None, times_used |-> times_used]
\* alice and bob active with pins that are not 4 to 8 digits.
MalformedUsers ==
    ("alice" :> StoreRecord(PinValue(ShortPin), TRUE, 0))
    @@ ("bob" :> StoreRecord(NullPinValue, TRUE, 0))
\* bob as an older version wrote the record, without times_used.
LegacyBob == [u \in {"bob"} |-> StoreRecord(PinValue(StorePin), TRUE, None)]
WrittenFile(data) == [exists |-> TRUE, valid |-> TRUE, users |-> json_dump(data)]
StoreFiles ==
    {NoFile, WrittenFile(DeactivatedAlice), WrittenFile(MalformedUsers),
     WrittenFile(LegacyBob)}

InitStore ==
    /\ InitApp
    /\ FreshStore
    /\ file \in StoreFiles
    /\ SmallLimits
    /\ PinlessPolicy
    /\ test_mode = TRUE

\* UsersStore(path) is constructed again: nothing is cached.
Reopen ==
    /\ loaded
    /\ users' = NoUsers
    /\ loaded' = FALSE
    /\ store_last' = NoCall
    /\ UNCHANGED <<now, tracker, globals, oidc, config, admin_failures, attempt_log, last, threads, store2, calls, file>>

\* The calls of this specification: alice is created, with a good or a
\* malformed pin, and so is a malformed username; alice is updated, alice and
\* bob are touched and deleted, present or not.
StoreCreate ==
    \E username \in {"alice", "a b"}, pin \in {PinValue(StorePin), PinValue(ShortPin)},
       active \in BOOLEAN :
        create_user(username, pin, active)
StoreUpdate ==
    \E pin \in UpdatePins, active \in UpdateActives :
        update_user("alice", pin, active)
StoreDelete == \E username \in {"alice", "bob"} : delete_user(username)
StoreTouch == \E username \in {"alice", "bob"} : touch_user(username)

NextStore ==
    \/ StoreCreate
    \/ StoreUpdate
    \/ StoreDelete
    \/ StoreTouch
    \/ Reopen
    \/ Tick

SpecStore == InitStore /\ [][NextStore]_vars

\* ------------------------------------------- open_door under concurrency
\* The server handles requests in threads and open_door takes no lock. A
\* run of open_door for a well-formed PIN that matches no user is taken in
\* the steps at which the threads can interleave: the entry up to the PIN
\* comparison, the load and the store of each counter's  += 1 , the
\* threshold checks, the return of time.sleep, and the audit record with the
\* response. A run's locals are its entry in threads.

\* Lines 315-498: the identifier and now are taken, the block checks run
\* and the PIN matches nobody. A blocked request is answered at once.
Begin(t, sid, ident) ==
    /\ threads[t].pc = "idle"
    /\ UNCHANGED <<now, tracker, oidc, config, admin_failures, attempt_log, store>>
    /\ LET check == BlockCheck(sid, ident)
           run == [IdleThread EXCEPT !.session_id = sid, !.identifier = ident,
                                     !.now = now]
       IN  IF check # "PASS"
           THEN /\ Blocked(check)
                /\ threads' = [threads EXCEPT ![t] = [run EXCEPT !.pc = "blocked"]]
           ELSE /\ GlobalChecked
                /\ UNCHANGED last
                /\ threads' = [threads EXCEPT ![t] = [run EXCEPT !.pc = "load_ip"]]

\* Lines 583-585, first half of a  += 1 : the counter is read.
LoadCounter(t) ==
    LET th == threads[t]
    IN  /\ th.pc \in {"load_ip", "load_session", "load_global"}
        /\ threads' = [threads EXCEPT
              ![t].tmp = CASE th.pc = "load_ip" -> ip_failed_attempts[th.identifier]
                           [] th.pc = "load_session" -> session_failed_attempts[th.session_id]
                           [] th.pc = "load_global" -> global_failed_attempts,
              ![t].pc = CASE th.pc = "load_ip" -> "store_ip"
                          [] th.pc = "load_session" -> "store_session"
                          [] th.pc = "load_global" -> "store_global"]
        /\ UNCHANGED <<now, tracker, globals, oidc, config, admin_failures, attempt_log, last, store>>

\* Lines 583-585, second half of a  += 1 : the value read, plus one, is
\* written back.
StoreCounter(t) ==
    LET th == threads[t]
    IN  /\ th.pc \in {"store_ip", "store_session", "store_global"}
        /\ ip_failed_attempts' =
              IF th.pc = "store_ip"
              THEN [ip_failed_attempts EXCEPT ![th.identifier] = th.tmp + 1]
              ELSE ip_failed_attempts
        /\ session_failed_attempts' =
              IF th.pc = "store_session"
              THEN [session_failed_attempts EXCEPT ![th.session_id] = th.tmp + 1]
              ELSE session_failed_attempts
        /\ global_failed_attempts' =
              IF th.pc = "store_global" THEN th.tmp + 1 ELSE global_failed_attempts
        /\ threads' = [threads EXCEPT
              ![t].tmp = 0,
              ![t].pc = CASE th.pc = "store_ip" -> "load_session"
                          [] th.pc = "store_session" -> "load_global"
                          [] th.pc = "store_global" -> "decide"]
        /\ UNCHANGED <<now, ip_blocked_until, session_blocked_until,
                       global_last_reset, oidc, config, admin_failures, attempt_log, last, store>>

\* Lines 587-603: the session block, else the IP block, else the delay is
\* computed and time.sleep is entered.
Decide(t) ==
    LET th == threads[t]
    IN  /\ th.pc = "decide"
        /\ UNCHANGED <<now, ip_failed_attempts, session_failed_attempts, globals,
                       oidc, config, admin_failures, attempt_log, last, store>>
        /\ IF session_failed_attempts[th.session_id] >= SESSION_MAX_ATTEMPTS
           THEN /\ session_blocked_until' =
                       [session_blocked_until EXCEPT ![th.session_id] = th.now + BLOCK_TIME]
                /\ UNCHANGED ip_blocked_until
                /\ threads' = [threads EXCEPT ![t].pc = "log",
                                  ![t].reason = "Invalid PIN. Session blocked"]
           ELSE IF ip_failed_attempts[th.identifier] >= MAX_ATTEMPTS
           THEN /\ ip_blocked_until' =
                       [ip_blocked_until EXCEPT ![th.identifier] = th.now + BLOCK_TIME]
                /\ UNCHANGED session_blocked_until
                /\ threads' = [threads EXCEPT ![t].pc = "log",
                                  ![t].reason = "Invalid PIN. Access blocked"]
           ELSE LET delay == get_delay_seconds(session_failed_attempts[th.session_id])
                IN  /\ UNCHANGED <<ip_blocked_until, session_blocked_until>>
                    /\ threads' = [threads EXCEPT
                          ![t].pc = IF delay > 0 THEN "sleep" ELSE "log",
                          ![t].delay = delay,
                          ![t].reason = "Invalid PIN. attempts remaining"]

\* Line 598: time.sleep(delay) returns.
Wake(t) ==
    /\ threads[t].pc = "sleep"
    /\ threads' = [threads EXCEPT ![t].pc = "log"]
    /\ UNCHANGED <<now, tracker, globals, oidc, config, admin_failures, attempt_log, last, store>>

\* Lines 605-614: the audit record, stamped with the now taken at the entry,
\* is appended and the 401 is returned.
LogAndReturn(t) ==
    /\ threads[t].pc = "log"
    /\ Respond("AUTH_FAILURE", "UNKNOWN", 401, threads[t].reason, TRUE,
               "not_called", threads[t].delay)
    /\ threads' = [threads EXCEPT ![t].pc = "done"]
    /\ UNCHANGED <<now, tracker, globals, oidc, config, admin_failures, attempt_log, store>>

InitConc ==
    /\ InitState
    /\ SmallLimits
    /\ PinlessPolicy
    /\ test_mode = FALSE

NextConc ==
    \/ \E t \in Threads, sid \in Sessions, ident \in Idents : Begin(t, sid, ident)
    \/ \E t \in Threads : LoadCounter(t)
    \/ \E t \in Threads : StoreCounter(t)
    \/ \E t \in Threads : Decide(t)
    \/ \E t \in Threads : Wake(t)
    \/ \E t \in Threads : LogAndReturn(t)
    \/ Tick

SpecConc == InitConc /\ [][NextConc]_vars

\* The same two threads with max_global_attempts_per_hour = 1 in config.ini:
\* one failed attempt exhausts the global limit.
TightGlobalLimit ==
    /\ MAX_ATTEMPTS = 2
    /\ SESSION_MAX_ATTEMPTS = 2
    /\ MAX_GLOBAL_ATTEMPTS_PER_HOUR = 1

InitBurst ==
    /\ InitState
    /\ TightGlobalLimit
    /\ PinlessPolicy
    /\ test_mode = FALSE

SpecBurst == InitBurst /\ [][NextConc]_vars

\* ------------------------------------------------- UsersStore step by step
\* The same four calls, one statement at a time, so that a crash, a failing
\* write or another thread can come between two statements.  _save_atomic is
\* open(path, "w"), which empties the file, json.dump into the file object,
\* and the close that writes the buffered text at offset 0.
EmptiedFile == [exists |-> TRUE, valid |-> FALSE, users |-> NoUsers]

\* The text written at offset 0 over what the file holds: a shorter text
\* over a longer one leaves the tail of the longer one behind it.
Overwrite(on_disk, text) ==
    IF on_disk.exists /\ on_disk.valid
       /\ Cardinality(DOMAIN on_disk.users) > Cardinality(DOMAIN text)
    THEN [exists |-> TRUE, valid |-> FALSE, users |-> NoUsers]
    ELSE [exists |-> TRUE, valid |-> TRUE, users |-> text]

\* The call of thread t returns or raises.
Return(t, result) ==
    /\ calls' = [calls EXCEPT ![t].pc = "done", ![t].result = result]
    /\ StoreResult(calls[t].op, calls[t].username, result)

\* The checks of a call before it changes anything.
CallError(op, username, has_pin, pin, data) ==
    CASE op = "create" ->
            IF ~validate_username(username) THEN "ValueError"
            ELSE IF ~validate_pin(pin) THEN "ValueError"
            ELSE IF username \in DOMAIN data THEN "KeyError"
            ELSE "none"
      [] op = "update" ->
            IF username \notin DOMAIN data THEN "KeyError"
            ELSE IF has_pin /\ ~validate_pin(pin) THEN "ValueError"
            ELSE "none"
      [] op = "delete" ->
            IF username \notin DOMAIN data THEN "KeyError" ELSE "none"
      [] OTHER -> "none"

\* _ensure_loaded and the checks of create_user, update_user, delete_user
\* and touch_user.
CallBegin(t, op, username, has_pin, pin, has_active, active) ==
    /\ calls[t].pc = "idle"
    /\ users' = load_file
    /\ loaded' = TRUE
    /\ UNCHANGED <<now, tracker, globals, oidc, config, admin_failures, attempt_log, last, threads, store2, file>>
    /\ LET run == [IdleCall EXCEPT !.op = op, !.username = username,
                                   !.has_pin = has_pin, !.pin = pin,
                                   !.has_active = has_active, !.active = active]
           error == CallError(op, username, has_pin, pin, load_file)
       IN  IF error # "none"
           THEN /\ calls' = [calls EXCEPT ![t] = [run EXCEPT !.pc = "done",
                                                             !.result = error]]
                /\ StoreResult(op, username, error)
           ELSE IF op = "touch" /\ username \notin DOMAIN load_file
           THEN /\ calls' = [calls EXCEPT ![t] = [run EXCEPT !.pc = "done",
                                                             !.result = "ok"]]
                /\ StoreResult(op, username, "ok")
           ELSE /\ op = "touch" => load_file[username].times_used < MaxUses
                /\ calls' = [calls EXCEPT ![t] =
                                [run EXCEPT !.pc = IF op = "touch" THEN "stamp"
                                                   ELSE "mutate"]]
                /\ UNCHANGED store_last

\* The assignment of create_user, the assignments of update_user, the del
\* of delete_user.  A key that another thread has removed meanwhile raises
\* KeyError.
Mutate(t) ==
    LET c == calls[t]
    IN  /\ c.pc = "mutate"
        /\ UNCHANGED <<now, tracker, globals, oidc, config, admin_failures, attempt_log, last, threads, store2, loaded, file>>
        /\ IF c.op = "create"
           THEN /\ users' = [u \in DOMAIN users \cup {c.username} |->
                                IF u = c.username
                                THEN [pin |-> c.pin, active |-> c.active,
                                      created_at |-> now, updated_at |-> now,
                                      last_used_at |-> None, times_used |-> 0]
                                ELSE users[u]]
                /\ calls' = [calls EXCEPT ![t].pc = "open"]
                /\ UNCHANGED store_last
           ELSE IF c.username \notin DOMAIN users
           THEN /\ Return(t, "KeyError")
                /\ UNCHANGED users
           ELSE /\ users' =
                      IF c.op = "update"
                      THEN [users EXCEPT ![c.username] =
                              [@ EXCEPT !.pin = IF c.has_pin THEN c.pin ELSE @,
                                        !.active = IF c.has_active THEN c.active ELSE @,
                                        !.updated_at = now]]
                      ELSE [u \in DOMAIN users \ {c.username} |-> users[u]]
                /\ calls' = [calls EXCEPT ![t].pc = "open"]
                /\ UNCHANGED store_last

\* touch_user: last_used_at = _now_iso()
Stamp(t) ==
    LET c == calls[t]
    IN  /\ c.pc = "stamp"
        /\ UNCHANGED <<now, tracker, globals, oidc, config, admin_failures, attempt_log, last, threads, store2, loaded, file>>
        /\ IF c.username \notin DOMAIN users
           THEN /\ Return(t, "KeyError")
                /\ UNCHANGED users
           ELSE /\ users' = [users EXCEPT ![c.username].last_used_at = now]
                /\ calls' = [calls EXCEPT ![t].pc = "read"]
                /\ UNCHANGED store_last

\* touch_user: the right-hand side, .get("times_used", 0) + 1
ReadTimes(t) ==
    LET c == calls[t]
    IN  /\ c.pc = "read"
        /\ UNCHANGED <<now, tracker, globals, oidc, config, admin_failures, attempt_log, last, threads, store2, users,
                       loaded, file>>
        /\ IF c.username \notin DOMAIN users
           THEN Return(t, "KeyError")
           ELSE /\ calls' = [calls EXCEPT
                                ![t].pc = "write",
                                ![t].tmp = (IF users[c.username].times_used = None
                                            THEN 0
                                            ELSE users[c.username].times_used) + 1]
                /\ UNCHANGED store_last

\* touch_user: the store into ["times_used"]
WriteTimes(t) ==
    LET c == calls[t]
    IN  /\ c.pc = "write"
        /\ UNCHANGED <<now, tracker, globals, oidc, config, admin_failures, attempt_log, last, threads, store2, loaded, file>>
        /\ IF c.username \notin DOMAIN users
           THEN /\ Return(t, "KeyError")
                /\ UNCHANGED users
           ELSE /\ users' = [users EXCEPT ![c.username].times_used = c.tmp]
                /\ calls' = [calls EXCEPT ![t].pc = "open"]
                /\ UNCHANGED store_last

\* _save_atomic: open(self.path, "w") empties the file.
SaveOpen(t) ==
    /\ calls[t].pc = "open"
    /\ file' = EmptiedFile
    /\ calls' = [calls EXCEPT ![t].pc = "dump"]
    /\ UNCHANGED <<now, tracker, globals, oidc, config, admin_failures, attempt_log, last, threads, store2, users, loaded,
                   store_last>>

\* _save_atomic: json.dump(self.data, f) fills the buffer of the file object.
SaveDump(t) ==
    /\ calls[t].pc = "dump"
    /\ calls' = [calls EXCEPT ![t].pc = "close", ![t].buffer = json_dump(users)]
    /\ UNCHANGED <<now, tracker, globals, oidc, config, admin_failures, attempt_log, last, threads, store2, users, loaded,
                   file, store_last>>

\* _save_atomic: leaving the with block flushes the buffer and the call returns.
SaveClose(t) ==
    /\ calls[t].pc = "close"
    /\ file' = Overwrite(file, calls[t].buffer)
    /\ Return(t, "ok")
    /\ UNCHANGED <<now, tracker, globals, oidc, config, admin_failures, attempt_log, last, threads, store2, users, loaded>>

\* open() raises OSError (the directory is read-only): nothing is written
\* and nothing in _save_atomic or its callers catches the exception.
SaveOpenFails(t) ==
    /\ calls[t].pc = "open"
    /\ Return(t, "OSError")
    /\ UNCHANGED <<now, tracker, globals, oidc, config, admin_failures, attempt_log, last, threads, store2, users, loaded,
                   file>>

\* The flush raises OSError (the disk is full) after open() emptied the file.
SaveCloseFails(t) ==
    /\ calls[t].pc = "close"
    /\ Return(t, "OSError")
    /\ UNCHANGED <<now, tracker, globals, oidc, config, admin_failures, attempt_log, last, threads, store2, users, loaded,
                   file>>

\* The process dies and is started again: only the file survives.
Crash ==
    /\ users' = NoUsers
    /\ loaded' = FALSE
    /\ calls' = [t \in Threads |-> IdleCall]
    /\ store_last' =
          IF \E t \in Threads : calls[t].pc \in {"dump", "close"}
          THEN [op |-> "save", username |-> "none", result |-> "crashed"]
          ELSE NoCall
    /\ UNCHANGED <<now, tracker, globals, oidc, config, admin_failures, attempt_log, last, threads, store2, file>>

\* The calls of the step-by-step specifications.
StepCalls(t) ==
    \/ \E username \in {"alice", "bob"}, pin \in {PinValue(StorePin), PinValue(ShortPin)} :
          CallBegin(t, "create", username, TRUE, pin, TRUE, TRUE)
    \/ \E has_pin \in BOOLEAN, active \in BOOLEAN :
          CallBegin(t, "update", "alice", has_pin, PinValue(StorePin), TRUE, active)
    \/ CallBegin(t, "delete", "alice", FALSE, NullPinValue, FALSE, FALSE)
    \/ \E username \in {"alice", "bob"} :
          CallBegin(t, "touch", username, FALSE, NullPinValue, FALSE, FALSE)

StepSave(t) == SaveOpen(t) \/ SaveDump(t) \/ SaveClose(t)
StepCall(t) ==
    StepCalls(t) \/ Mutate(t) \/ Stamp(t) \/ ReadTimes(t) \/ WriteTimes(t) \/ StepSave(t)

\* One caller, writes that can fail, and a process that can die.
InitCrash ==
    /\ InitApp
    /\ FreshStore
    /\ file \in {NoFile, WrittenFile(DeactivatedAlice), WrittenFile(LegacyBob)}
    /\ SmallLimits
    /\ PinlessPolicy
    /\ test_mode = TRUE

NextCrash ==
    \/ StepCall("t1")
    \/ SaveOpenFails("t1")
    \/ SaveCloseFails("t1")
    \/ Crash
    \/ Tick

SpecCrash == InitCrash /\ [][NextCrash]_vars

\* Two threads, one call each on the same store, no failure.
RaceUsers == [u \in {"alice"} |-> StoreRecord(PinValue(AlicePin), TRUE, 0)]

InitRace ==
    /\ InitApp
    /\ FreshStore
    /\ file = WrittenFile(RaceUsers)
    /\ SmallLimits
    /\ PinlessPolicy
    /\ test_mode = TRUE

NextRace ==
    \/ \E t \in Threads : StepCall(t)
    \/ Tick

SpecRace == InitRace /\ [][NextRace]_vars

\* Two UsersStore instances on one path.  The calls are made on the instance
\* whose data and _loaded are `users` and `loaded`; Switch makes the next
\* calls go to the other instance.
Switch ==
    /\ users' = store2.users
    /\ loaded' = store2.loaded
    /\ store2' = [users |-> users, loaded |-> loaded]
    /\ store_last' = NoCall
    /\ UNCHANGED <<now, tracker, globals, oidc, config, admin_failures, attempt_log, last, threads, calls, file>>

\* A file that json.load cannot read, or reads as something without a
\* dictionary under "users".
UnreadableFile == [exists |-> TRUE, valid |-> FALSE, users |-> NoUsers]

InitTwo ==
    /\ InitApp
    /\ FreshStore
    /\ file \in {NoFile, WrittenFile(DeactivatedAlice), UnreadableFile}
    /\ SmallLimits
    /\ PinlessPolicy
    /\ test_mode = TRUE


\* The clock stands still: no claim about two instances is about a time.
NextTwo ==
    \/ \E username \in {"alice", "bob"} : create_user(username, PinValue(StorePin), TRUE)
    \/ update_user("alice", NotGiven, GivenActive(TRUE))
    \/ delete_user("alice")
    \/ \E username \in {"alice", "bob"} : touch_user(username)
    \/ Switch

SpecTwo == InitTwo /\ [][NextTwo]_vars

\* The admin login next to PIN attempts of the same sessions.
AuthBodies == {StrPinBody(WrongPin), StrPinBody(AlicePin)}

AdminAuth ==
    \E sid \in Sessions, correct \in BOOLEAN, remember_me \in BOOLEAN :
        admin_auth(sid, correct, remember_me)

NextAuth ==
    \/ AdminAuth
    \/ Requests({"s1"}, {"f1"}, AuthBodies)
    \/ Tick

SpecAuth == Init /\ [][NextAuth]_vars

\* Sessions whose cookie carries a block marker written by an earlier
\* process, with correct PINs and pinless requests.
SessionTransaction ==
    \E sid \in OidcSessions, ts \in 1..(MaxTime + 1) :
        /\ session[sid].blocked_until_ts = None
        /\ session' = [session EXCEPT ![sid].blocked_until_ts = ts]
        /\ UNCHANGED <<now, tracker, globals, oidc_expired, config, admin_failures, attempt_log,
                       last, store, threads>>

NextCookie ==
    \/ SessionTransaction
    \/ Login
    \/ Requests(OidcSessions, {"f1"}, OidcBodies)
    \/ Tick

SpecCookie == Init /\ [][NextCookie]_vars

\* PIN attempts whose failed-attempt records are kept, over several windows
\* of the global counter.
NextWindow ==
    \/ \E sid \in Sessions, ident \in Idents, body \in AuthBodies :
          OpenDoorLogged(sid, ident, body)
    \/ Tick

SpecWindow == Init /\ [][NextWindow]_vars

\* ------------------------------------------------------------------ claims
\* The claims are about requests that pass the suspicious-request pre-filter
\* (is_request_suspicious answers False).
BlockedStatuses == {"GLOBAL_BLOCKED", "SESSION_BLOCKED", "IP_BLOCKED"}
FailedStatuses == {"INVALID_FORMAT", "AUTH_FAILURE"}

\* The hourly window has elapsed: the next request zeroes the global counter.
HourPassed == now - global_last_reset > GLOBAL_WINDOW
\* The global counter of the current window has reached its limit.
GlobalExhausted ==
    (IF HourPassed THEN 0 ELSE global_failed_attempts) >= MAX_GLOBAL_ATTEMPTS_PER_HOUR
\* A blocked_until that lies in the future.
ActiveBlock(until) == until # None /\ until > now
\* None of the three block checks matches the requester.
PassesBlocks(sid, ident) ==
    /\ ~GlobalExhausted
    /\ ~ActiveBlock(session_blocked_until[sid])
    /\ ~ActiveBlock(ip_blocked_until[ident])
\* The step is not a request of this session from this fingerprint with one
\* of the bodies B.
NoRequest(sid, ident, B) ==
    \A body \in B : ~OpenDoor(sid, ident, body, FALSE)
\* The request was authenticated (PIN match or pinless OIDC use).
Authenticated == last'.user # "UNKNOWN"

C1_Order(sid, ident) ==
    LET g == GlobalExhausted
        sb == ActiveBlock(session_blocked_until[sid])
        ib == ActiveBlock(ip_blocked_until[ident])
    IN  /\ g => last'.status = "GLOBAL_BLOCKED"
        /\ (~g /\ sb) => last'.status = "SESSION_BLOCKED"
        /\ (~g /\ ~sb /\ ib) => last'.status = "IP_BLOCKED"
        /\ (~g /\ ~sb /\ ~ib) => last'.status \notin BlockedStatuses
        /\ last'.validated => (~g /\ ~sb /\ ~ib)

\* C1: the block checks are decided in the order global, session, IP: an
\* exhausted global counter answers GLOBAL_BLOCKED whatever the session and
\* fingerprint blocks are, else a blocked session answers SESSION_BLOCKED
\* whatever the fingerprint block is, else a blocked fingerprint answers
\* IP_BLOCKED, and the PIN is validated only when none of the three holds.
C1_BlockOrder ==
    [][\A sid \in Sessions, ident \in Idents :
        C1_Order(sid, ident) \/ NoRequest(sid, ident, OidcBodies)]_vars

\* A request was answered GLOBAL_BLOCKED while a session and a fingerprint
\* are blocked as well.
C1_Witness ==
    /\ last.status = "GLOBAL_BLOCKED"
    /\ \E sid \in Sessions : ActiveBlock(session_blocked_until[sid])
    /\ \E ident \in Idents : ActiveBlock(ip_blocked_until[ident])

C2_Blocked(sid, ident) ==
    \/ ActiveBlock(session_blocked_until[sid])
    \/ ActiveBlock(ip_blocked_until[ident])

\* C2 as stated: a request that arrives while the session's or the
\* fingerprint's blocked_until is in the future is denied with a blocked
\* status and leaves the five counters and blocks, global_failed_attempts
\* included, exactly as they were.
C2_NoMutation ==
    [][\A sid \in Sessions, ident \in Idents :
        \/ ~C2_Blocked(sid, ident)
        \/ /\ last'.status \in BlockedStatuses
           /\ UNCHANGED <<tracker, global_failed_attempts>>
        \/ NoRequest(sid, ident, OidcBodies)]_vars

\* C2 amended: such a request is denied with a blocked status and leaves the
\* per-key counters and blocks as they were; global_failed_attempts is
\* unchanged too, unless the hourly window has elapsed, and then it is 0.
C2_NoMutationButHourlyReset ==
    [][\A sid \in Sessions, ident \in Idents :
        \/ ~C2_Blocked(sid, ident)
        \/ /\ last'.status \in BlockedStatuses
           /\ UNCHANGED tracker
           /\ global_failed_attempts' = IF HourPassed THEN 0 ELSE global_failed_attempts
        \/ NoRequest(sid, ident, OidcBodies)]_vars

\* A blocked requester was denied by its block, not by the global limit, at
\* the instant the hourly window had elapsed: the global counter was zeroed
\* while the per-key counters stayed.
C2_Witness ==
    /\ last.status \in {"SESSION_BLOCKED", "IP_BLOCKED"}
    /\ global_last_reset = now /\ now > 0
    /\ global_failed_attempts = 0
    /\ \E sid \in Sessions : session_failed_attempts[sid] >= SESSION_MAX_ATTEMPTS

\* C3: a failed attempt that brings the session's (the fingerprint's) count
\* to or above its threshold sets that key's blocked_until to
\* now + BLOCK_TIME and is answered 401; a request from a key with a block in
\* the future is answered 429 and changes no counter.
C3_BlockAtThreshold ==
    [][\A sid \in Sessions, ident \in Idents :
        \/ /\ (last'.status \in FailedStatuses
                 /\ session_failed_attempts'[sid] >= SESSION_MAX_ATTEMPTS)
              => (session_blocked_until'[sid] = now + BLOCK_TIME /\ last'.code = 401)
           /\ (last'.status \in FailedStatuses
                 /\ ip_failed_attempts'[ident] >= MAX_ATTEMPTS)
              => (ip_blocked_until'[ident] = now + BLOCK_TIME /\ last'.code = 401)
           /\ C2_Blocked(sid, ident)
              => (last'.code = 429
                  /\ UNCHANGED <<ip_failed_attempts, session_failed_attempts>>)
        \/ NoRequest(sid, ident, Bodies)]_vars

C4_Counted(sid, ident, global) ==
    /\ ip_failed_attempts' = [ip_failed_attempts EXCEPT ![ident] = @ + 1]
    /\ session_failed_attempts' = [session_failed_attempts EXCEPT ![sid] = @ + 1]
    /\ global_failed_attempts' = global

\* C4 as stated: an attempt that fails validation (INVALID_FORMAT or
\* AUTH_FAILURE) increases the fingerprint's, the session's and the global
\* counter by exactly 1 each and changes no other key's counter.
C4_EachPlusOne ==
    [][\A sid \in Sessions, ident \in Idents :
        \/ last'.status \notin FailedStatuses
        \/ C4_Counted(sid, ident, global_failed_attempts + 1)
        \/ NoRequest(sid, ident, Bodies)]_vars

\* C4 amended: the fingerprint's and the session's counter increase by
\* exactly 1, no other key's counter changes, and the global counter becomes
\* its value in the current window plus 1: 1 when the hourly window has
\* elapsed, its old value plus 1 otherwise.
C4_EachPlusOneInWindow ==
    [][\A sid \in Sessions, ident \in Idents :
        \/ last'.status \notin FailedStatuses
        \/ C4_Counted(sid, ident,
                      (IF HourPassed THEN 0 ELSE global_failed_attempts) + 1)
        \/ NoRequest(sid, ident, Bodies)]_vars

\* A failed attempt was counted as the first of a new hourly window by a
\* fingerprint that had failed before.
C4_Witness ==
    /\ last.status \in FailedStatuses
    /\ global_failed_attempts = 1
    /\ global_last_reset = now /\ now > 0
    /\ \E ident \in Idents : ip_failed_attempts[ident] >= 2

\* C5: for every session and fingerprint key, blocked_until is set if and
\* only if the key's failed_count has reached its threshold since the key's
\* last reset (a count only grows between resets, so it has reached the
\* threshold exactly when it is at or above it now).
C5_BlockedIffThreshold ==
    /\ \A sid \in Sessions :
          (session_failed_attempts[sid] >= SESSION_MAX_ATTEMPTS)
             <=> (session_blocked_until[sid] # None)
    /\ \A ident \in Idents :
          (ip_failed_attempts[ident] >= MAX_ATTEMPTS)
             <=> (ip_blocked_until[ident] # None)

\* C6: with max_attempts = 5, once a fingerprint has made five consecutive
\* malformed submissions, its next attempt (from a session below the session
\* threshold, the global limit not reached) is answered IP_BLOCKED and its
\* PIN is not validated.
C6_SixthBlocked ==
    [][\A sid \in Sessions, ident \in Idents :
        \/ ~(/\ MAX_ATTEMPTS = 5
             /\ ip_failed_attempts[ident] >= 5
             /\ session_failed_attempts[sid] < SESSION_MAX_ATTEMPTS
             /\ ~GlobalExhausted)
        \/ (last'.status = "IP_BLOCKED" /\ ~last'.validated)
        \/ NoRequest(sid, ident, FiveBodies)]_vars

C7_Reset(sid, ident) ==
    /\ ip_failed_attempts' = [ip_failed_attempts EXCEPT ![ident] = 0]
    /\ session_failed_attempts' = [session_failed_attempts EXCEPT ![sid] = 0]
    /\ ip_blocked_until' = [ip_blocked_until EXCEPT ![ident] = None]
    /\ session_blocked_until' = [session_blocked_until EXCEPT ![sid] = None]

\* C7 as stated: a successful authentication (PIN match or allowed pinless
\* request) sets the requester's two counters to 0, clears its two blocks,
\* changes no other key, and never changes global_failed_attempts.
C7_ResetNotGlobal ==
    [][\A sid \in Sessions, ident \in Idents :
        \/ ~Authenticated
        \/ (C7_Reset(sid, ident) /\ UNCHANGED global_failed_attempts)
        \/ NoRequest(sid, ident, OidcBodies)]_vars

\* C7 amended: the same, but global_failed_attempts is unchanged only
\* within the hourly window; when the window has elapsed the request's
\* global check has set it to 0.
C7_ResetGlobalInWindow ==
    [][\A sid \in Sessions, ident \in Idents :
        \/ ~Authenticated
        \/ /\ C7_Reset(sid, ident)
           /\ global_failed_attempts' = IF HourPassed THEN 0 ELSE global_failed_attempts
        \/ NoRequest(sid, ident, OidcBodies)]_vars

\* A pinless OIDC use succeeded after failures of the same window: session
\* s1 is back at 0 and the global counter still holds the failures.
C7_Witness ==
    /\ last.user = "oidc-user"
    /\ last.status = "SUCCESS"
    /\ session_failed_attempts["s1"] = 0
    /\ global_failed_attempts > 0

\* C8: a pinless request from a session whose identity assertion has expired
\* is answered 'PIN required' (400), its actuator is not triggered and no
\* counter or block is reset, whatever the session's groups.
C8_ExpiredNeedsPin ==
    [][\A sid \in OidcSessions, ident \in Idents :
        \/ ~(oidc_expired[sid] /\ PassesBlocks(sid, ident))
        \/ /\ last'.message = "PIN required" /\ last'.code = 400
           /\ last'.status # "SUCCESS" /\ last'.actuator = "not_called"
           /\ UNCHANGED tracker
        \/ ~OpenDoor(sid, ident, NoPinBody, FALSE)]_vars

\* The conditions of the pinless path.
C9_Allowed(sid) ==
    /\ session[sid].oidc_authenticated
    /\ (oidc_user_group = "" \/ oidc_user_group \in session[sid].oidc_groups)
    /\ ~require_pin_for_oidc

\* Requests without a PIN: no 'pin' field, a null pin, an empty pin.
C9_NoPinBodies == {NoPinBody, NullPinBody, StrPinBody(EmptyPin)}

C9_PinRequired ==
    /\ last'.message = "PIN required" /\ last'.code = 400
    /\ last'.actuator = "not_called"
    /\ UNCHANGED tracker

C10_DecidedByEffectivePins ==
    [][\A sid \in Sessions, ident \in Idents, body \in AdminBodies :
        \/ ~PassesBlocks(sid, ident)
        \/ Authenticated <=>
             (\E u \in DOMAIN effective_pins(user_pins) :
                 effective_pins(user_pins)[u] = body.pin)
        \/ ~OpenDoor(sid, ident, body, FALSE)]_vars

\* C11: a success whose matched user has an active store record holding the
\* presented PIN leaves that record touched exactly once (times_used one
\* more, last_used_at the time of the attempt); a success whose matched user
\* has no store record creates and changes no store record.
C11_TouchedOnSuccess ==
    [][\A sid \in Sessions, ident \in Idents, body \in AdminBodies :
        \/ ~PassesBlocks(sid, ident)
        \/ ~Authenticated
        \/ LET u == last'.user
           IN  IF u \in DOMAIN load_file
               THEN (load_file[u].active /\ load_file[u].pin = PinValue(body.pin))
                    => /\ file'.exists
                       /\ u \in DOMAIN file'.users
                       /\ file'.users[u].times_used = load_file[u].times_used + 1
                       /\ file'.users[u].last_used_at = now
               ELSE file' = file
        \/ ~OpenDoor(sid, ident, body, FALSE)]_vars

\* C12: a response with a blocked status carries blocked_until equal to the
\* expiry of the block that caused it, and so does the 401 response of the
\* failed attempt that sets a block.
C12_CarriesExpiry ==
    [][\A sid \in Sessions, ident \in Idents :
        \/ /\ last'.status = "SESSION_BLOCKED"
              => last'.blocked_until = session_blocked_until[sid]
           /\ last'.status = "IP_BLOCKED"
              => last'.blocked_until = ip_blocked_until[ident]
           /\ (last'.code = 401 /\ session_blocked_until'[sid] # session_blocked_until[sid])
              => last'.blocked_until = session_blocked_until'[sid]
           /\ (last'.code = 401 /\ ip_blocked_until'[ident] # ip_blocked_until[ident])
              => last'.blocked_until = ip_blocked_until'[ident]
        \/ NoRequest(sid, ident, Bodies)]_vars

\* C13: a request that arrives when more than one hour has passed since the
\* last reset of the global counter is not denied as GLOBAL_BLOCKED, whatever
\* was counted before and with no success in between: the counter restarts
\* from zero at that request (it is 1 after a counted failure, 0 otherwise)
\* and the window restarts at the time of the request.
C13_WindowResets ==
    [][\/ ~HourPassed
       \/ /\ last'.status # "GLOBAL_BLOCKED"
          /\ global_failed_attempts' = IF last'.status \in FailedStatuses THEN 1 ELSE 0
          /\ global_last_reset' = now
       \/ \A sid \in Sessions, ident \in Idents : NoRequest(sid, ident, Bodies)]_vars

\* After the global limit was reached in the first window (the fingerprints'
\* counters, which only a success resets, still hold those failures), a
\* failure in a later window was counted as the first of its window.
C13_Witness ==
    /\ last.status \in FailedStatuses
    /\ global_last_reset = now /\ now > GLOBAL_WINDOW
    /\ global_failed_attempts = 1
    /\ ip_failed_attempts["f1"] + ip_failed_attempts["f2"]
          >= MAX_GLOBAL_ATTEMPTS_PER_HOUR + 1

\* The schedule of the claim: 0 for no failure, then 1, 2, 4, 8 and 16
\* seconds from the fifth failure on.
C14_Schedule(n) ==
    CASE n = 0 -> 0
      [] n = 1 -> 1
      [] n = 2 -> 2
      [] n = 3 -> 4
      [] n = 4 -> 8
      [] OTHER -> 16

\* C14: for every failure count n a session reaches, get_delay_seconds(n) is
\* 0 for n = 0 and min(2^(n-1), 16) for n >= 1, that is 1, 2, 4, 8, 16 and 16
\* from n = 5 on; it never exceeds 16 and does not decrease with n.
C14_DelaySchedule ==
    \A sid \in Sessions :
        LET n == session_failed_attempts[sid]
        IN  /\ n >= 0
            /\ get_delay_seconds(n) = C14_Schedule(n)
            /\ n >= 1 => get_delay_seconds(n) =
                            (IF 2 ^ (n - 1) < 16 THEN 2 ^ (n - 1) ELSE 16)
            /\ get_delay_seconds(n) <= 16
            /\ get_delay_seconds(n) <= get_delay_seconds(n + 1)

\* A sixth wrong PIN of a session was delayed by the capped 16 seconds.
C14_Witness ==
    /\ last.status = "AUTH_FAILURE" /\ last.delay = 16
    /\ \E sid \in Sessions : session_failed_attempts[sid] = 6

\* C15 as stated: with session_max_attempts = 3, the wrong PIN that is the
\* first, second or third consecutive failure of its session is delayed by
\* 1, 2 or 4 seconds.
C15_OneTwoFour ==
    [][\A sid \in Sessions :
        \/ SESSION_MAX_ATTEMPTS # 3
        \/ last'.status # "AUTH_FAILURE"
        \/ session_failed_attempts[sid] + 1 \notin 1..3
        \/ last'.delay = C14_Schedule(session_failed_attempts[sid] + 1)
        \/ NoRequest(sid, "f1", DelayBodies)]_vars

\* C15 amended: with session_max_attempts = 3, the first and the second
\* consecutive wrong PIN of a session are delayed by 1 and 2 seconds, as long
\* as the fingerprint's count stays below max_attempts; the third reaches
\* the threshold, sets the session block and is answered without a delay.
C15_OneTwoThenBlock ==
    [][\A sid \in Sessions :
        \/ SESSION_MAX_ATTEMPTS # 3
        \/ last'.status # "AUTH_FAILURE"
        \/ LET n == session_failed_attempts[sid] + 1
           IN  /\ (n = 1 /\ ip_failed_attempts'["f1"] < MAX_ATTEMPTS) => last'.delay = 1
               /\ (n = 2 /\ ip_failed_attempts'["f1"] < MAX_ATTEMPTS) => last'.delay = 2
               /\ n = 3 => /\ last'.delay = 0
                           /\ session_blocked_until'[sid] = now + BLOCK_TIME
        \/ NoRequest(sid, "f1", DelayBodies)]_vars

\* With session_max_attempts = 3, the third wrong PIN of a session set the
\* session block and was not delayed.
C15_Witness ==
    /\ SESSION_MAX_ATTEMPTS = 3
    /\ last.message = "Invalid PIN. Session blocked" /\ last.delay = 0
    /\ \E sid \in Sessions :
          session_failed_attempts[sid] = 3 /\ session_blocked_until[sid] # None

\* C16: a wrong-PIN denial that sets no block is delayed by
\* get_delay_seconds of the session's count after this attempt's increment:
\* at least one second, and computed from that session's current count
\* whatever the delay of an earlier request was.
C16_DelayedByOwnCount ==
    [][\A sid \in Sessions :
        \/ last'.status # "AUTH_FAILURE"
        \/ session_blocked_until' # session_blocked_until
        \/ ip_blocked_until' # ip_blocked_until
        \/ /\ last'.delay = get_delay_seconds(session_failed_attempts[sid] + 1)
           /\ last'.delay >= 1
        \/ NoRequest(sid, "f1", DelayBodies)]_vars

\* A first wrong PIN of one session was delayed by 1 second although the
\* other session had already been delayed by 4 seconds or more.
C16_Witness ==
    /\ last.status = "AUTH_FAILURE" /\ last.delay = 1
    /\ \E sid \in Sessions, other \in Sessions :
          /\ session_failed_attempts[sid] = 1
          /\ session_failed_attempts[other] >= 3
          /\ session_blocked_until[other] = None

\* The runs of a session (of a fingerprint) that have written their
\* increment of its counter back, and the runs that have returned their 401.
C17_Counted(field, key, before) ==
    {t \in Threads : threads[t][field] = key /\ threads[t].pc \notin before}
C17_BeforeIpStore == {"idle", "blocked", "load_ip", "store_ip"}
C17_BeforeSessionStore == C17_BeforeIpStore \cup {"load_session", "store_session"}

\* C17: with failing requests in progress at the same time, each counter is
\* the number of failures that have completed their increment of it (no
\* update is lost), and a session whose failures that have returned number
\* the threshold or more has its block set.
C17_NoLostUpdate ==
    /\ \A ident \in Idents :
          ip_failed_attempts[ident] =
              Cardinality(C17_Counted("identifier", ident, C17_BeforeIpStore))
    /\ \A sid \in Sessions :
          /\ session_failed_attempts[sid] =
                Cardinality(C17_Counted("session_id", sid, C17_BeforeSessionStore))
          /\ Cardinality({t \in Threads : threads[t].session_id = sid
                                           /\ threads[t].pc = "done"})
                >= SESSION_MAX_ATTEMPTS
             => session_blocked_until[sid] # None

\* C18: a request whose evaluation raises an exception (its body is not a
\* JSON object, and no block check has answered it before) is denied with
\* 500 "Internal server error", never a success: the actuator is not called,
\* no user is authenticated, no counter or block is reset, and an EXCEPTION
\* audit record is written by the handler itself.
C18_FailsClosed ==
    [][\A sid \in OidcSessions :
        \/ ~PassesBlocks(sid, "f1")
        \/ /\ last'.status = "EXCEPTION"
           /\ last'.code = 500 /\ last'.message = "Internal server error"
           /\ last'.user = "UNKNOWN" /\ last'.actuator = "not_called"
           /\ UNCHANGED tracker
        \/ ~OpenDoor(sid, "f1", ArrayBody, FALSE)]_vars

\* The exception was raised for a session that is signed in and allowed to
\* open the door without a PIN, with failures on its counter.
C18_Witness ==
    /\ last.status = "EXCEPTION"
    /\ session["s1"].oidc_authenticated /\ oidc_user_allowed("s1")
    /\ ~require_pin_for_oidc
    /\ session_failed_attempts["s1"] > 0

\* C19: every denial of a PIN-gated attempt (blocked by the global, session
\* or IP check, invalid format, PIN mismatch, PIN required: the responses
\* 429, 400 and 401) has written an audit record when it is answered.
C19_DenialsAudited ==
    last.code \in {400, 401, 429} => last.status # "NONE"

\* The runs whose audit record has been appended.
C20_Logged == {t \in Threads : threads[t].pc \in {"blocked", "done"}}

\* C20: whenever a run appends its audit record, the record's timestamp is
\* not earlier than the timestamp of any record appended before it, under
\* every interleaving of the runs.
C20_Chronological ==
    [][\A t \in Threads :
        \/ t \in C20_Logged
        \/ threads'[t].pc \notin {"blocked", "done"}
        \/ \A q \in C20_Logged : threads[q].now <= threads'[t].now]_vars

\* C21: in the effective table computed from the base table and the store,
\* a username with an inactive store record is absent, also when the base
\* table has it; a username with an active store record whose pin is
\* format-valid is mapped to the store pin, whatever the base pin; a username
\* that only the base table has keeps its base pin.
C21_Overrides ==
    LET data == load_file
        eff == effective_pins(user_pins)
    IN  \A u \in DOMAIN data \cup DOMAIN user_pins :
            /\ (u \in DOMAIN data /\ ~data[u].active) => u \notin DOMAIN eff
            /\ (u \in DOMAIN data /\ data[u].active /\ validate_pin(data[u].pin))
                  => (u \in DOMAIN eff /\ eff[u] = data[u].pin.pin)
            /\ u \notin DOMAIN data => (u \in DOMAIN eff /\ eff[u] = user_pins[u])

\* alice, whom the base table gives 1111, has an active store record with
\* the pin 2222 and the effective table maps her to 2222, while bob's
\* record has been deleted.
C21_Witness ==
    /\ loaded
    /\ DOMAIN users = {"alice"}
    /\ users["alice"].active /\ users["alice"].pin = PinValue(StorePin)
    /\ effective_pins(user_pins)["alice"] = StorePin
    /\ store_last.op = "delete" /\ store_last.result = "ok"

\* C22 as stated: with the base table {alice: 1111} and a store without
\* records the effective table is {alice: 1111}, and update(alice,
\* active = false) on that store leaves alice out of the effective table.
C22_UpdateRemoves ==
    [][\/ DOMAIN load_file # {}
       \/ /\ effective_pins(user_pins) = user_pins
          /\ "alice" \notin DOMAIN effective_pins(user_pins)'
       \/ ~update_user("alice", NotGiven, GivenActive(FALSE))]_vars

\* C22 amended: with the base table {alice: 1111} and a store without
\* records the effective table is {alice: 1111}; update(alice, active =
\* false) on that store fails with KeyError (not found) and the effective
\* table stays {alice: 1111}; on a store that has a record of alice the
\* update succeeds and leaves alice out of the effective table.
C22_UpdateNeedsRecord ==
    [][\/ IF "alice" \in DOMAIN load_file
          THEN /\ store_last'.result = "ok"
               /\ "alice" \notin DOMAIN effective_pins(user_pins)'
          ELSE /\ DOMAIN load_file = {} => effective_pins(user_pins) = user_pins
               /\ store_last'.result = "KeyError"
               /\ effective_pins(user_pins)' = effective_pins(user_pins)
       \/ ~update_user("alice", NotGiven, GivenActive(FALSE))]_vars

\* alice, created active in a store that had no records, was deactivated by
\* an update and is in no effective table.
C22_Witness ==
    /\ store_last = [op |-> "update", username |-> "alice", result |-> "ok"]
    /\ DOMAIN users = {"alice"}
    /\ ~users["alice"].active /\ users["alice"].updated_at > users["alice"].created_at
    /\ DOMAIN effective_pins(user_pins) = {}

\* An active store record whose pin is not a string of 4 to 8 digits.
C23_Malformed(data, u) ==
    u \in DOMAIN data /\ data[u].active /\ ~validate_pin(data[u].pin)

\* C23: a username whose active store record has a malformed pin has no
\* entry in the effective table, also when the base table lists it.
C23_NoEntry ==
    \A u \in DOMAIN load_file :
        C23_Malformed(load_file, u) => u \notin DOMAIN effective_pins(user_pins)

\* The call raised the error and left the records in memory and the file
\* as they were.
C24_Rejected(errors) ==
    /\ store_last'.result \in errors
    /\ load_file' = load_file
    /\ file' = file

\* The step records a call of op for username.
C24_Call(op, username) ==
    store_last'.op = op /\ store_last'.username = username

\* C24: a store mutation that is rejected raises a typed error and changes
\* nothing in memory or in the file. create with a malformed username or pin
\* raises ValueError (invalid input) and create on a present username raises
\* KeyError (already exists); update with a malformed supplied pin raises
\* ValueError, update and delete on an absent username raise KeyError (not
\* found). Where two grounds apply, the error is one of the two.
C24_RejectedChangesNothing ==
    [][/\ \A username \in {"alice", "a b"},
             pin \in {PinValue(StorePin), PinValue(ShortPin)}, active \in BOOLEAN :
            LET malformed == ~validate_username(username) \/ ~validate_pin(pin)
                present == username \in DOMAIN load_file
            IN  \/ ~C24_Call("create", username)
                \/ ~(malformed \/ present)
                \/ C24_Rejected((IF malformed THEN {"ValueError"} ELSE {})
                                \cup (IF present THEN {"KeyError"} ELSE {}))
                \/ ~create_user(username, pin, active)
       /\ \A pin \in UpdatePins, active \in UpdateActives :
            LET malformed == pin.given /\ ~validate_pin(pin.value)
                absent == "alice" \notin DOMAIN load_file
            IN  \/ ~C24_Call("update", "alice")
                \/ ~(malformed \/ absent)
                \/ C24_Rejected((IF malformed THEN {"ValueError"} ELSE {})
                                \cup (IF absent THEN {"KeyError"} ELSE {}))
                \/ ~update_user("alice", pin, active)
       /\ \A username \in {"alice", "bob"} :
            \/ ~C24_Call("delete", username)
            \/ username \in DOMAIN load_file
            \/ C24_Rejected({"KeyError"})
            \/ ~delete_user(username)]_vars

\* An update of alice was rejected for its malformed pin after an earlier
\* update had succeeded; alice's record is still the one the file holds.
C24_Witness ==
    /\ store_last = [op |-> "update", username |-> "alice", result |-> "ValueError"]
    /\ "alice" \in DOMAIN users /\ users["alice"].active
    /\ users["alice"].updated_at > users["alice"].created_at
    /\ file.users = json_dump(users)

\* C25: an update of a present username with no pin or a well-formed pin
\* stores the supplied pin and the supplied active flag, keeps the pin or
\* the flag that is not supplied, sets updated_at, keeps created_at,
\* last_used_at and times_used, and leaves every other record, and the set
\* of usernames, as it was.
C25_OnlySuppliedFields ==
    [][\A pin \in UpdatePins, active \in UpdateActives :
        \/ ~C24_Call("update", "alice")
        \/ "alice" \notin DOMAIN load_file
        \/ (pin.given /\ ~validate_pin(pin.value))
        \/ LET old == load_file
               new == load_file'
           IN  /\ store_last'.result = "ok"
               /\ DOMAIN new = DOMAIN old
               /\ \A u \in DOMAIN old \ {"alice"} : new[u] = old[u]
               /\ new["alice"].pin = IF pin.given THEN pin.value ELSE old["alice"].pin
               /\ new["alice"].active =
                     IF active.given THEN active.value ELSE old["alice"].active
               /\ new["alice"].updated_at = now
               /\ new["alice"].created_at = old["alice"].created_at
               /\ new["alice"].last_used_at = old["alice"].last_used_at
               /\ new["alice"].times_used = old["alice"].times_used
        \/ ~update_user("alice", pin, active)]_vars

\* alice, created and used earlier, was updated after her last use, next to
\* bob's record, which still lacks times_used.
C25_Witness ==
    /\ store_last = [op |-> "update", username |-> "alice", result |-> "ok"]
    /\ DOMAIN users = {"alice", "bob"}
    /\ users["alice"].times_used = 1
    /\ users["alice"].created_at < users["alice"].last_used_at
    /\ users["alice"].last_used_at < users["alice"].updated_at
    /\ users["bob"].times_used = None

\* What a fresh UsersStore opened on the same path reads.
C26_FreshRead ==
    IF file.exists /\ file.valid THEN json_load(file.users) ELSE NoUsers

\* C26: after every call, what the instance holds once it has loaded is
\* what a fresh instance on the same path reads; a record just created has
\* the supplied pin and active flag, the time of the call as created_at and
\* updated_at, times_used = 0 and last_used_at = None, read either way; and
\* after a delete the username exists in neither reading.
C26_RoundTrip ==
    [][/\ loaded' => users' = C26_FreshRead'
       /\ \A username \in {"alice", "a b"},
             pin \in {PinValue(StorePin), PinValue(ShortPin)}, active \in BOOLEAN :
            \/ ~C24_Call("create", username)
            \/ ~validate_username(username) \/ ~validate_pin(pin)
            \/ username \in DOMAIN load_file
            \/ /\ username \in DOMAIN C26_FreshRead'
               /\ C26_FreshRead'[username] =
                     [pin |-> pin, active |-> active, created_at |-> now,
                      updated_at |-> now, last_used_at |-> None, times_used |-> 0]
               /\ users'[username] = C26_FreshRead'[username]
            \/ ~create_user(username, pin, active)
       /\ \A username \in {"alice", "bob"} :
            \/ ~C24_Call("delete", username)
            \/ username \notin DOMAIN load_file
            \/ /\ username \notin DOMAIN users'
               /\ username \notin DOMAIN C26_FreshRead'
            \/ ~delete_user(username)]_vars

\* A fresh instance, which has not loaded yet, is about to read alice's
\* record as two touches and an update of the instance before it left it.
C26_Witness ==
    /\ ~loaded /\ store_last = NoCall
    /\ file.exists
    /\ "alice" \in DOMAIN load_file
    /\ load_file["alice"].times_used = 2
    /\ load_file["alice"].updated_at > load_file["alice"].created_at

\* times_used as it is read: a record without the key counts as 0.
C27_TimesUsed(meta) == IF meta.times_used = None THEN 0 ELSE meta.times_used

\* C27: touch_user of an absent username returns without error and leaves
\* the records and the file as they were; touch_user of a present username
\* raises times_used by exactly 1 (counting from 0 when the key is missing),
\* sets last_used_at to the time of the call, and leaves pin, active,
\* created_at, updated_at and every other record as they were.  No step
\* other than a touch changes the times_used of a record that stays, so it
\* never decreases and equals the number of touches since the create.
C27_TouchCounts ==
    [][/\ \A username \in {"alice", "bob"} :
            \/ ~C24_Call("touch", username)
            \/ IF username \notin DOMAIN load_file
               THEN /\ store_last'.result = "ok"
                    /\ file' = file
                    /\ load_file' = load_file
               ELSE /\ store_last'.result = "ok"
                    /\ DOMAIN load_file' = DOMAIN load_file
                    /\ \A u \in DOMAIN load_file \ {username} :
                          load_file'[u] = load_file[u]
                    /\ load_file'[username] =
                          [load_file[username] EXCEPT
                              !.times_used = C27_TimesUsed(load_file[username]) + 1,
                              !.last_used_at = now]
                    /\ C26_FreshRead' = load_file'
            \/ ~touch_user(username)
       /\ \A u \in DOMAIN load_file \cap DOMAIN load_file' :
            \/ load_file'[u].times_used = load_file[u].times_used
            \/ /\ C24_Call("touch", u)
               /\ load_file'[u].times_used = C27_TimesUsed(load_file[u]) + 1]_vars

\* bob's record, read from a file written before times_used existed, has
\* been touched once and now counts 1.
C27_Witness ==
    /\ loaded /\ store_last = [op |-> "touch", username |-> "bob", result |-> "ok"]
    /\ "bob" \in DOMAIN users
    /\ users["bob"].pin = PinValue(StorePin)
    /\ users["bob"].times_used = 1
    /\ users["bob"].last_used_at = now
    /\ file.users["bob"].times_used = 1

\* C28: when the process dies while _save_atomic is writing, the file that
\* is left is a complete document (the state before the call or the state
\* after it), never an emptied or partly written one.
C28_CrashSafe == store_last.result = "crashed" => file.valid

\* C29: when the write of a mutating call fails with OSError, the call has
\* raised, the file is still the complete document it was, and what the
\* instance holds in memory is what the file holds.
C29_FailedWriteInvisible ==
    store_last.result = "OSError" => file.valid /\ users = C26_FreshRead

\* What two calls in a serial order leave, as far as it does not depend on
\* the clock: the usernames with their pin, active flag and times_used.
C30_View(data) ==
    [u \in DOMAIN data |->
        [pin |-> data[u].pin, active |-> data[u].active,
         times_used |-> data[u].times_used]]

C30_Serial(c, view) ==
    CASE c.op = "create" ->
            IF c.result # "ok" THEN view
            ELSE [u \in DOMAIN view \cup {c.username} |->
                    IF u = c.username
                    THEN [pin |-> c.pin, active |-> c.active, times_used |-> 0]
                    ELSE view[u]]
      [] c.op = "update" ->
            IF c.result # "ok" THEN view
            ELSE [view EXCEPT ![c.username] =
                    [@ EXCEPT !.pin = IF c.has_pin THEN c.pin ELSE @,
                              !.active = IF c.has_active THEN c.active ELSE @]]
      [] c.op = "delete" ->
            IF c.result # "ok" THEN view
            ELSE [u \in DOMAIN view \ {c.username} |-> view[u]]
      [] c.op = "touch" ->
            IF c.username \notin DOMAIN view THEN view
            ELSE [view EXCEPT ![c.username].times_used = @ + 1]
      [] OTHER -> view

\* The result of call c is the one it has when it runs alone on view.
C30_SerialResult(c, view) ==
    c.result = IF c.op = "touch" THEN "ok"
               ELSE LET error == CallError(c.op, c.username, c.has_pin, c.pin, view)
                    IN  IF error = "none" THEN "ok" ELSE error

C30_InOrder(first, second) ==
    LET start == C30_View(RaceUsers)
        middle == C30_Serial(first, start)
    IN  /\ C30_SerialResult(first, start)
        /\ C30_SerialResult(second, middle)
        /\ C30_View(users) = C30_Serial(second, middle)

\* C30: when two concurrent calls on the same store have both returned, the
\* file is a complete document that holds what the instance holds in memory,
\* and results and state are those of the two calls run one after the other
\* in one of the two orders (two touches of alice leave times_used = 2).
C30_Serialized ==
    (calls["t1"].pc = "done" /\ calls["t2"].pc = "done") =>
        /\ file.valid
        /\ users = C26_FreshRead
        /\ \/ C30_InOrder(calls["t1"], calls["t2"])
           \/ C30_InOrder(calls["t2"], calls["t1"])

\* What the instance works on: its cache once it has loaded, else the file,
\* and nothing when the file is missing or cannot be read.
C31_Base ==
    IF loaded THEN users
    ELSE IF file.exists /\ file.valid THEN json_load(file.users)
    ELSE NoUsers

\* C31: a call works on the file's content only at the instance's first
\* access and on the cached content afterwards, whatever the file holds by
\* then: every record other than the one the call names is the one of that
\* content.  When there is no content (the file is missing or cannot be
\* read) the call answers as an empty store does: create and touch succeed,
\* update and delete answer that the user is not found, and nothing else is
\* raised.
C31_LazyLoad ==
    [][(store_last'.op # "none" /\ store2' = store2 /\ now' = now) =>
          LET base == C31_Base
              u == store_last'.username
          IN  /\ loaded'
              /\ \A v \in (DOMAIN base \cup DOMAIN users') \ {u} :
                    v \in DOMAIN base /\ v \in DOMAIN users' /\ users'[v] = base[v]
              /\ store_last'.result \in {"ok", "KeyError", "ValueError"}
              /\ (store_last'.result = "KeyError") =>
                    (u \in DOMAIN base <=> store_last'.op = "create")
              /\ base = NoUsers =>
                    store_last'.result =
                        IF store_last'.op \in {"create", "touch"} THEN "ok" ELSE "KeyError"]_vars

\* The instance loaded when there was no alice; the other instance has since
\* written alice to the file; the first still answers from its cache.
C31_Witness ==
    /\ loaded
    /\ store_last = [op |-> "delete", username |-> "alice", result |-> "KeyError"]
    /\ users = NoUsers
    /\ file.valid /\ "alice" \in DOMAIN file.users
    /\ store2.loaded /\ "alice" \in DOMAIN store2.users

\* C32: a wrong admin password from a session whose last
\* SESSION_MAX_ATTEMPTS admin logins were all answered 403 is answered 429.
C32_AdminBlocked ==
    [][\A sid \in Sessions :
        \/ admin_failures[sid] < SESSION_MAX_ATTEMPTS
        \/ last'.code = 429
        \/ \A remember_me \in BOOLEAN : ~admin_auth(sid, FALSE, remember_me)]_vars

\* C33: a request to /open-door from a session whose cookie carries a
\* blocked_until_ts that lies in the future is answered 429, with a correct
\* PIN and without a PIN alike, whatever session_blocked_until holds.
C33_CookieBlocks ==
    [][\A sid \in OidcSessions :
        \/ session[sid].blocked_until_ts = None
        \/ now >= session[sid].blocked_until_ts
        \/ last'.code = 429
        \/ NoRequest(sid, "f1", OidcBodies)]_vars

\* C34: in every reachable state, also while /open-door requests run
\* concurrently, global_failed_attempts is at most
\* MAX_GLOBAL_ATTEMPTS_PER_HOUR.
C34_GlobalBounded == global_failed_attempts <= MAX_GLOBAL_ATTEMPTS_PER_HOUR

\* The failed-attempt records with a timestamp from `from` on.
RECURSIVE C35_LoggedSince(_)
C35_LoggedSince(from) ==
    IF from > MaxTime THEN 0 ELSE attempt_log[from] + C35_LoggedSince(from + 1)

\* C35 as stated: any time span of one window length holds at most
\* MAX_GLOBAL_ATTEMPTS_PER_HOUR failed attempts.  (The window of the code
\* ends when now - global_last_reset > GLOBAL_WINDOW: it holds the timestamps
\* t to t + GLOBAL_WINDOW, both included.)
C35_RollingWindow ==
    \A t \in 0..(MaxTime - GLOBAL_WINDOW) :
        C35_LoggedSince(t) - C35_LoggedSince(t + GLOBAL_WINDOW + 1)
            <= MAX_GLOBAL_ATTEMPTS_PER_HOUR

\* C35 amended: the failed attempts since the last reset of the global
\* counter are those the counter holds, at most
\* MAX_GLOBAL_ATTEMPTS_PER_HOUR; a span of one window length that straddles
\* a reset holds at most twice as many.
C35_FixedWindow ==
    /\ C35_LoggedSince(global_last_reset) = global_failed_attempts
    /\ global_failed_attempts <= MAX_GLOBAL_ATTEMPTS_PER_HOUR
    /\ \A t \in 0..(MaxTime - GLOBAL_WINDOW) :
          C35_LoggedSince(t) - C35_LoggedSince(t + GLOBAL_WINDOW + 1)
              <= 2 * MAX_GLOBAL_ATTEMPTS_PER_HOUR

\* A span of one window length that straddles a reset holds more failed
\* attempts than the limit: as many as the limit before the reset, and one
\* after it.
C35_Witness ==
    /\ now >= 2
    /\ global_last_reset = now
    /\ attempt_log[now - 1] = MAX_GLOBAL_ATTEMPTS_PER_HOUR
    /\ attempt_log[now] >= 1
    /\ global_failed_attempts = attempt_log[now]

\* C36: a wrong well-formed PIN that is evaluated found neither its
\* session nor its fingerprint under a block that lies in the future; when
\* it leaves the session's or the fingerprint's counter at or above its
\* threshold, it leaves the session's or the fingerprint's blocked_until at
\* now + BLOCK_TIME; and no step changes a blocked_until that lies in the
\* future.  So two wrong PINs of one session and fingerprint, the first of
\* them at a threshold, are a full block period apart.
C36_BlockPeriodApart ==
    [][/\ \A sid \in Sessions, ident \in Idents :
            \/ last'.status # "AUTH_FAILURE"
            \/ /\ ~ActiveBlock(session_blocked_until[sid])
               /\ ~ActiveBlock(ip_blocked_until[ident])
               /\ (\/ session_failed_attempts'[sid] >= SESSION_MAX_ATTEMPTS
                   \/ ip_failed_attempts'[ident] >= MAX_ATTEMPTS)
                  => (\/ session_blocked_until'[sid] = now + BLOCK_TIME
                      \/ ip_blocked_until'[ident] = now + BLOCK_TIME)
            \/ ~OpenDoor(sid, ident, StrPinBody(WrongPin), FALSE)
       /\ \A sid \in Sessions :
            ActiveBlock(session_blocked_until[sid])
               => session_blocked_until'[sid] = session_blocked_until[sid]
       /\ \A ident \in Idents :
            ActiveBlock(ip_blocked_until[ident])
               => ip_blocked_until'[ident] = ip_blocked_until[ident]]_vars

\* A session's block has expired, its next wrong PIN was evaluated a full
\* block period after the one that set the block, and the session is
\* blocked again.
C36_Witness ==
    /\ last.status = "AUTH_FAILURE"
    /\ now >= BLOCK_TIME
    /\ \E sid \in Sessions :
          /\ session_failed_attempts[sid] > SESSION_MAX_ATTEMPTS
          /\ session_blocked_until[sid] = now + BLOCK_TIME

\* C37: when a session's block has expired and no success has cleared it,
\* a wrong well-formed PIN of that session that passes the global and the
\* fingerprint check is counted on top of the old count, sets the session's
\* blocked_until to now + BLOCK_TIME and is answered without a progressive
\* delay.
C37_ExpiryKeepsCount ==
    [][\A sid \in Sessions, ident \in Idents :
        \/ session_blocked_until[sid] = None
        \/ ~PassesBlocks(sid, ident)
        \/ /\ last'.status = "AUTH_FAILURE"
           /\ last'.delay = 0
           /\ session_failed_attempts'[sid] = session_failed_attempts[sid] + 1
           /\ session_failed_attempts'[sid] > SESSION_MAX_ATTEMPTS
           /\ session_blocked_until'[sid] = now + BLOCK_TIME
        \/ ~OpenDoor(sid, ident, StrPinBody(WrongPin), FALSE)]_vars

\* The block that a session's second wrong PIN set at time 0 has expired;
\* its third wrong PIN was answered at once and set the next block.
C37_Witness ==
    /\ last.status = "AUTH_FAILURE"
    /\ last.message = "Invalid PIN. Session blocked"
    /\ last.delay = 0
    /\ now = BLOCK_TIME
    /\ \E sid \in Sessions :
          /\ session_failed_attempts[sid] = SESSION_MAX_ATTEMPTS + 1
          /\ session_blocked_until[sid] = now + BLOCK_TIME

\* C38: a step changes the blocked_until of a session or of a fingerprint
\* only when it is a request of that key that passed the three block checks
\* and either failed with a wrong PIN (the new value is now + BLOCK_TIME) or
\* was authenticated (the new value is None).  So a blocked_until that lies
\* in the future is changed by no request, and the key is unblocked when the
\* clock reaches the value that was set when the block began.
C38_NeverExtended ==
    [][/\ \A sid \in Sessions :
            \/ session_blocked_until'[sid] = session_blocked_until[sid]
            \/ /\ ~ActiveBlock(session_blocked_until[sid])
               /\ ~GlobalExhausted
               /\ \/ /\ last'.status = "AUTH_FAILURE"
                     /\ session_blocked_until'[sid] = now + BLOCK_TIME
                  \/ /\ Authenticated
                     /\ session_blocked_until'[sid] = None
               /\ \E ident \in Idents :
                     /\ ~ActiveBlock(ip_blocked_until[ident])
                     /\ \E body \in Bodies : OpenDoor(sid, ident, body, FALSE)
       /\ \A ident \in Idents :
            \/ ip_blocked_until'[ident] = ip_blocked_until[ident]
            \/ /\ ~ActiveBlock(ip_blocked_until[ident])
               /\ ~GlobalExhausted
               /\ \/ /\ last'.status = "AUTH_FAILURE"
                     /\ ip_blocked_until'[ident] = now + BLOCK_TIME
                  \/ /\ Authenticated
                     /\ ip_blocked_until'[ident] = None
               /\ \E sid \in Sessions :
                     /\ ~ActiveBlock(session_blocked_until[sid])
                     /\ \E body \in Bodies : OpenDoor(sid, ident, body, FALSE)]_vars

\* A request arrived during a block, one tick after the block began, and the
\* blocked_until is still the one that was set at time 0.
C38_Witness ==
    /\ last.status \in {"SESSION_BLOCKED", "IP_BLOCKED"}
    /\ now = BLOCK_TIME - 1
    /\ \/ \E sid \in Sessions : session_blocked_until[sid] = BLOCK_TIME
       \/ \E ident \in Idents : ip_blocked_until[ident] = BLOCK_TIME

\* C39: a request that was authenticated (PIN match or allowed pinless OIDC
\* request) leaves its fingerprint's and its session's counters at 0 and
\* their blocks cleared whatever the actuator call did: also when the call
\* failed and the request was answered with 500 or 502 and not with success.
C39_ResetBeforeCall ==
    [][\A sid \in Sessions, ident \in Idents :
        \/ ~Authenticated
        \/ /\ C7_Reset(sid, ident)
           /\ last'.actuator \in {"not_called", "200"}
                 => (last'.code = 200 /\ last'.status = "SUCCESS")
           /\ last'.actuator \in HaOutcomes \ {"200"}
                 => (last'.code \in {500, 502} /\ last'.status # "SUCCESS")
        \/ NoRequest(sid, ident, OidcBodies)]_vars

\* The actuator call of an authenticated request failed; the failures that
\* the global counter still holds are on no session and no fingerprint.
C39_Witness ==
    /\ last.user # "UNKNOWN"
    /\ last.actuator \in HaOutcomes \ {"200"}
    /\ last.code \in {500, 502}
    /\ now = 0
    /\ global_failed_attempts >= 1
    /\ \A sid \in Sessions : session_failed_attempts[sid] = 0
    /\ \A ident \in Idents : ip_failed_attempts[ident] = 0

\* C40: when both instances have loaded, a call of one of them that commits
\* a mutation works on that instance's cache and not on the file, and leaves
\* as the file exactly what the instance then holds: apart from the record
\* the call names, the file has the records of the caller's cache and no
\* others, so a record that only the other instance had written is gone.
C40_LastWriterWins ==
    [][(/\ loaded /\ store2.loaded
        /\ store2' = store2
        /\ store_last'.result = "ok"
        /\ \/ store_last'.op \in {"create", "update", "delete"}
           \/ store_last'.op = "touch" /\ store_last'.username \in DOMAIN users) =>
          LET u == store_last'.username
              disk == C26_FreshRead'
          IN  /\ file'.exists /\ file'.valid
              /\ disk = users'
              /\ \A v \in (DOMAIN disk \cup DOMAIN users) \ {u} :
                    v \in DOMAIN disk /\ v \in DOMAIN users /\ disk[v] = users[v]]_vars

\* Both instances loaded the empty store; the other one created a user, then
\* this one committed a mutation: the other's user is not in the file.
C40_Witness ==
    /\ loaded /\ store2.loaded
    /\ store_last.result = "ok"
    /\ store_last.op \in {"create", "update", "delete"}
    /\ file.exists /\ file.valid
    /\ json_load(file.users) = users
    /\ \E v \in DOMAIN store2.users \ {store_last.username} :
          v \notin DOMAIN file.users

====
